---- MODULE Spec2Model ----
(***************************************************************************)
(* A model of itatrainingassignment.py: the Selenium bot that opens the    *)
(* ITA training Google form, logs in and fills the form's fields.          *)
(*                                                                         *)
(* Python values are tagged records, Python strings are sequences of       *)
(* one-character strings, and the browser is an explicit page of elements  *)
(* together with the log of the clicks and keystrokes sent to it.          *)
(***************************************************************************)
EXTENDS Integers, Sequences, FiniteSets, TLC

VARIABLES
  pc,            \* position of the running script or scenario
  exc,           \* the exception that ended the run ("None": none)
  \* ITATrainingBot
  fields,        \* self.fields: position (0-based) -> entry
  lookup,        \* self.lookup: label -> position
  n_changes,     \* number of change_field calls made
  last_change,   \* the last change_field call: its arguments and the catalog before it
  next_field,    \* process_fields: position of the entry the loop handles next
  calls,         \* the form-filling calls made so far, in order
  last_call,     \* the last call made on the bot from outside: what it did and returned
  \* the browser
  page_id,       \* the page the browser shows: a name in Pages
  accepts,       \* the locator shapes the driver resolves: see find_ancestor
  events,        \* the clicks and keystrokes sent so far, in order, with their page
  focused,       \* driver.switch_to.active_element (0: the body)
  n_drawn,       \* number of strings generate_random_string() has returned so far
  \* SeleniumBot and the main script
  installs,      \* the driver types whose instantiation succeeds on this machine
  spec_index,    \* try_drivers: position (0-based) in specs of the type tried next
  driver,        \* self.driver: a driver type, "None", or "unset" before find_webdriver returns
  printed,       \* the exceptions printed so far, in order
  base_url,      \* self.base_url: a SplitResult, or "unset"
  nav,           \* the last navigate call: what happened and what it returned
  n_navigations, \* number of navigate calls made
  answers        \* the lines read by input(), by prompt

botVars == <<fields, lookup, n_changes, last_change, next_field, calls>>

browserVars == <<page_id, accepts, events, focused>>

seleniumVars == <<installs, spec_index, driver, printed, base_url, nav, n_navigations, answers>>

vars == <<pc, exc, last_call, n_drawn, botVars, browserVars, seleniumVars>>

----------------------------------------------------------------------------
(* Bounds of the model.                                                    *)

\* change_field calls explored on the catalog alone
MaxChanges == 2

\* change_field calls explored before process_fields runs
MaxOverrides == 1

\* navigate calls explored on a started bot
MaxNavigations == 2

\* form-filling calls explored on a started bot
MaxFormCalls == 1

\* the largest choose_amount passed to select_multiple_checkboxes
MaxChoose == 2

\* generate_random_string's default length
RandomStringLength == 20

----------------------------------------------------------------------------
(* Python values.                                                          *)

PyNone == [ty |-> "NoneType"]

PyBool(b) == [ty |-> "bool", b |-> b]

PyInt(n) == [ty |-> "int", n |-> n]

\* a str: the sequence of its characters
PyStr(chars) == [ty |-> "str", chars |-> chars]

PyList(items) == [ty |-> "list", items |-> items]

\* a member of the enum GoogleFormBotFieldType
FieldType(name) == [ty |-> "GoogleFormBotFieldType", name |-> name]

DATE == FieldType("DATE")

MULTI_CHECKBOX == FieldType("MULTI_CHECKBOX")

MULTI_SELECT == FieldType("MULTI_SELECT")

SINGLE_CHECKBOX == FieldType("SINGLE_CHECKBOX")

TEXT == FieldType("TEXT")

GoogleFormBotFieldType == {DATE, MULTI_CHECKBOX, MULTI_SELECT, SINGLE_CHECKBOX, TEXT}

\* a Python list indexed from 0, from the sequence of its items
ZeroBased(seq) == [i \in 0..(Len(seq) - 1) |-> seq[i + 1]]

\* one catalog entry as __init__ writes it: the list [kind, value, label]
Field(kind, value, label) == PyList(<<kind, value, PyStr(label)>>)

InitialFields ==
  ZeroBased(<<
    \* [SINGLE_CHECKBOX, ..., "email"]
    Field(SINGLE_CHECKBOX, PyBool(TRUE),
          <<"e","m","a","i","l">>),
    \* [TEXT, ..., "Last Name"]
    Field(TEXT, PyStr(<<"T","h","a","c","k","e","r">>),
          <<"L","a","s","t"," ","N","a","m","e">>),
    \* [TEXT, ..., "First Name"]
    Field(TEXT, PyStr(<<"C","a","m","e","r","o","n">>),
          <<"F","i","r","s","t"," ","N","a","m","e">>),
    \* [TEXT, ..., "Middle Initial"]
    Field(TEXT, PyStr(<<"Z">>),
          <<"M","i","d","d","l","e"," ","I","n","i","t","i","a","l">>),
    \* [TEXT, ..., "Student ID #"]
    Field(TEXT, PyInt(312931),
          <<"S","t","u","d","e","n","t"," ","I","D"," ","#">>),
    \* [MULTI_SELECT, ..., "Country of Citizenship"]
    Field(MULTI_SELECT, PyNone,
          <<"C","o","u","n","t","r","y"," ","o","f"," ","C","i","t","i","z","e","n","s","h","i","p">>),
    \* [MULTI_SELECT, ..., "Term for ELI ITA Attendance"]
    Field(MULTI_SELECT, PyNone,
          <<"T","e","r","m"," ","f","o","r"," ","E","L","I"," ","I","T","A"," ","A","t","t","e","n","d","a","n","c","e">>),
    \* [MULTI_SELECT, ..., "ELI ITA Session"]
    Field(MULTI_SELECT, PyNone,
          <<"E","L","I"," ","I","T","A"," ","S","e","s","s","i","o","n">>),
    \* [TEXT, ..., "IBT TOEFL Score (Speaking)"]
    Field(TEXT, PyInt(99),
          <<"I","B","T"," ","T","O","E","F","L"," ","S","c","o","r","e"," ","(","S","p","e","a","k","i","n","g",")">>),
    \* [TEXT, ..., "IBT TOEFL Score (Total)"]
    Field(TEXT, PyInt(99),
          <<"I","B","T"," ","T","O","E","F","L"," ","S","c","o","r","e"," ","(","T","o","t","a","l",")">>),
    \* [DATE, ..., "Begin Date of TA Contract"]
    Field(DATE, PyList(<<PyInt(12), PyInt(20), PyInt(1990)>>),
          <<"B","e","g","i","n"," ","D","a","t","e"," ","o","f"," ","T","A"," ","C","o","n","t","r","a","c","t">>),
    \* [DATE, ..., "End Date of TA Contract"]
    Field(DATE, PyList(<<PyInt(12), PyInt(20), PyInt(1991)>>),
          <<"E","n","d"," ","D","a","t","e"," ","o","f"," ","T","A"," ","C","o","n","t","r","a","c","t">>),
    \* [TEXT, ..., "Amount of Stipend"]
    Field(TEXT, PyInt(20000),
          <<"A","m","o","u","n","t"," ","o","f"," ","S","t","i","p","e","n","d">>),
    \* [TEXT, ..., "Percentage of Tuition"]
    Field(TEXT, PyInt(100),
          <<"P","e","r","c","e","n","t","a","g","e"," ","o","f"," ","T","u","i","t","i","o","n">>),
    \* [MULTI_CHECKBOX, ..., "Name of Student's Program"]
    Field(MULTI_CHECKBOX, PyNone,
          <<"N","a","m","e"," ","o","f"," ","S","t","u","d","e","n","t","'","s"," ","P","r","o","g","r","a","m">>),
    \* [TEXT, ..., "Department Contact Name"]
    Field(TEXT, PyStr(<<"T","h","a","c","k","e","r"," ","D","e","p","a","r","t","m","e","n","t">>),
          <<"D","e","p","a","r","t","m","e","n","t"," ","C","o","n","t","a","c","t"," ","N","a","m","e">>),
    \* [TEXT, ..., "Department Contact Campus Address"]
    Field(TEXT, PyStr(<<"2","0"," ","T","h","a","c","k","e","r"," ","L","a","n","e">>),
          <<"D","e","p","a","r","t","m","e","n","t"," ","C","o","n","t","a","c","t"," ","C","a","m","p","u","s"," ","A","d","d","r","e","s","s">>),
    \* [TEXT, ..., "Department Contact Person's Telephone Number"]
    Field(TEXT, PyStr(<<"1","2","3","-","4","0","1","-","9","9","5","8">>),
          <<"D","e","p","a","r","t","m","e","n","t"," ","C","o","n","t","a","c","t"," ","P","e","r","s","o","n","'","s"," ","T","e","l","e","p","h","o","n","e"," ","N","u","m","b","e","r">>)
  >>)

\* number of entries of the catalog
NumFields == Cardinality(DOMAIN InitialFields)

\* element[-1] of an entry: the last item of a list, the last character of a str
LastItem(entry) ==
  IF entry.ty = "list" /\ Len(entry.items) > 0 THEN entry.items[Len(entry.items)]
  ELSE IF entry.ty = "str" /\ Len(entry.chars) > 0
       THEN PyStr(<<entry.chars[Len(entry.chars)]>>)
  ELSE PyNone

\* the positions of f whose entry ends with label
PositionsOf(f, label) == {i \in DOMAIN f : LastItem(f[i]) = label}

\* the mutant of BuildLookup: positions counted from 1
BuildLookupFromOne(f) ==
  [label \in {LastItem(f[i]).chars : i \in DOMAIN f} |->
     1 + CHOOSE i \in PositionsOf(f, PyStr(label)) :
           \A j \in PositionsOf(f, PyStr(label)) : j <= i]

\* the loop "for ind, element in enumerate(self.fields): lookup[element[-1]] = ind":
\* a later entry with the same label overwrites the earlier position
BuildLookup(f) ==
  [label \in {LastItem(f[i]).chars : i \in DOMAIN f} |->
     CHOOSE i \in PositionsOf(f, PyStr(label)) :
       \A j \in PositionsOf(f, PyStr(label)) : j <= i]

----------------------------------------------------------------------------
(* Python strings.                                                         *)

UpperCase == <<"A","B","C","D","E","F","G","H","I","J","K","L","M",
               "N","O","P","Q","R","S","T","U","V","W","X","Y","Z">>

LowerCase == <<"a","b","c","d","e","f","g","h","i","j","k","l","m",
               "n","o","p","q","r","s","t","u","v","w","x","y","z">>

Digits == <<"0","1","2","3","4","5","6","7","8","9">>

\* the uppercase letters of code points 192 to 222 and their lowercase letters
UpperLatin1 == <<"À","Á","Â","Ã","Ä","Å","Æ","Ç","È","É","Ê","Ë","Ì","Í","Î",
                 "Ï","Ð","Ñ","Ò","Ó","Ô","Õ","Ö","Ø","Ù","Ú","Û","Ü","Ý","Þ">>

LowerLatin1 == <<"à","á","â","ã","ä","å","æ","ç","è","é","ê","ë","ì","í","î",
                 "ï","ð","ñ","ò","ó","ô","õ","ö","ø","ù","ú","û","ü","ý","þ">>

\* the characters str.strip() removes: the white space of Python's str, which
\* is the code points 9 to 13, 28 to 32, 133, 160 and 5760, and further ones
\* that no string literal holds
Whitespace == {" ", "\t", "\n", "\r", "\f", "","","","","",""," "," "}

\* the lowercase letter of each uppercase letter of code point up to 255
ToLower ==
  LET upper == UpperCase \o UpperLatin1
      lower == LowerCase \o LowerLatin1
  IN [c \in {upper[k] : k \in 1..Len(upper)} |->
        lower[CHOOSE k \in 1..Len(upper) : upper[k] = c]]

\* the characters that str.lower() keeps, among those of code points 1 to 255
\* (but the backquote, which no string literal holds) and 5760
KeptByLower ==
  {
   "","","","","","","","","\t","\n","","\f","\r","","","",
   "","","","","","","","","","","","","","",""," ",
   "!","\"","#","$","%","&","'","(",")","*","+",",","-",".","/","0",
   "1","2","3","4","5","6","7","8","9",":",";","<","=",">","?","@",
   "[","\\","]","^","_","a","b","c","d","e","f","g","h","i","j","k",
   "l","m","n","o","p","q","r","s","t","u","v","w","x","y","z","{",
   "|","}","~","","","","","","","","","","","","","",
   "","","","","","","","","","","","","","","","",
   "","","",""," ","¡","¢","£","¤","¥","¦","§","¨","©","ª","«",
   "¬","­","®","¯","°","±","²","³","´","µ","¶","·","¸","¹","º","»",
   "¼","½","¾","¿","×","ß","à","á","â","ã","ä","å","æ","ç","è","é",
   "ê","ë","ì","í","î","ï","ð","ñ","ò","ó","ô","õ","ö","÷","ø","ù",
   "ú","û","ü","ý","þ","ÿ"," " }

\* str.lower() on one character of code point 1 to 255 or 5760; it is not
\* defined on the others
LowerChar(c) ==
  CASE c \in KeptByLower -> c
    [] c \in DOMAIN ToLower -> ToLower[c]

\* str.lower()
Lower(s) == [k \in 1..Len(s) |-> LowerChar(s[k])]

RECURSIVE LStripChars(_, _)
\* str.lstrip(chars): the leading characters that are in chars removed
LStripChars(s, chars) ==
  IF Len(s) > 0 /\ s[1] \in chars THEN LStripChars(Tail(s), chars) ELSE s

\* str.lstrip(): leading whitespace removed
LStrip(s) == LStripChars(s, Whitespace)

RECURSIVE RStrip(_)
\* str.rstrip(): trailing whitespace removed
RStrip(s) ==
  IF Len(s) > 0 /\ s[Len(s)] \in Whitespace THEN RStrip(SubSeq(s, 1, Len(s) - 1)) ELSE s

\* str.strip(): leading and trailing whitespace removed
Strip(s) == RStrip(LStrip(s))

RECURSIVE DecimalDigits(_)
\* the decimal digits of a natural number
DecimalDigits(n) ==
  IF n < 10 THEN <<Digits[n + 1]>>
  ELSE Append(DecimalDigits(n \div 10), Digits[(n % 10) + 1])

\* str(content) for the values the bot types: a str is kept, an int, a bool,
\* None and the empty list are converted
StrOf(content) ==
  CASE content.ty = "str" -> content.chars
    [] content.ty = "int" ->
         IF content.n < 0 THEN <<"-">> \o DecimalDigits(0 - content.n)
         ELSE DecimalDigits(content.n)
    [] content.ty = "bool" ->
         IF content.b THEN <<"T","r","u","e">> ELSE <<"F","a","l","s","e">>
    [] content.ty = "NoneType" -> <<"N","o","n","e">>
    [] content.ty = "list" /\ content.items = <<>> -> <<"[","]">>

----------------------------------------------------------------------------
(* The page: its elements in document order.  Element 0 is no element      *)
(* (Python's None); an element's parent 0 is the document root.            *)

\* role and aria-label values the bot looks for
STR_listbox == <<"l","i","s","t","b","o","x">>

STR_option == <<"o","p","t","i","o","n">>

STR_checkbox == <<"c","h","e","c","k","b","o","x">>

STR_combobox == <<"c","o","m","b","o","b","o","x">>

STR_list == <<"l","i","s","t">>

STR_listitem == <<"l","i","s","t","i","t","e","m">>

STR_month == <<"m","o","n","t","h">>

STR_day_of_the_month == <<"d","a","y"," ","o","f"," ","t","h","e"," ","m","o","n","t","h">>

STR_year == <<"y","e","a","r">>

NoAttrs == [a \in {} |-> <<>>]

\* an element: its tag, its parent, its attributes (name -> value), and the
\* element that takes the focus when it is clicked (0: the element itself)
El(tag, parent, attrs, focus) ==
  [tag |-> tag, parent |-> parent, attrs |-> attrs, focus |-> focus]

\* WebElement.get_attribute(name): the value, or None when there is none
get_attribute(page, el, name) ==
  IF name \in DOMAIN page[el].attrs THEN PyStr(page[el].attrs[name]) ELSE PyNone

RECURSIVE Ancestor(_, _, _)
\* the levels-th ancestor of el, 0 when the chain ends at the document root
Ancestor(page, el, levels) ==
  IF el = 0 \/ levels = 0 THEN el
  ELSE Ancestor(page, page[el].parent, levels - 1)

RECURSIVE IsDescendant(_, _, _)
\* whether el lies strictly below top
IsDescendant(page, el, top) ==
  /\ el # 0
  /\ top # 0
  /\ \/ page[el].parent = top
     \/ IsDescendant(page, page[el].parent, top)

\* the positions of the page's elements, in document order
Positions(page) == [e \in 1..Len(page) |-> e]

\* driver.find_elements(By.TAG_NAME, tag): every element with the tag
driver_find_elements(page, tag) ==
  SelectSeq(Positions(page), LAMBDA e : page[e].tag = tag)

\* element.find_elements(By.TAG_NAME, tag): the descendants with the tag
find_elements(page, el, tag) ==
  SelectSeq(Positions(page), LAMBDA e : page[e].tag = tag /\ IsDescendant(page, e, el))

\* filter(pred, list) for a predicate given as the set of elements passing it
Filter(list, passing) == SelectSeq(list, LAMBDA e : e \in passing)

\* list[-1]
Last(list) == list[Len(list)]

----------------------------------------------------------------------------
(* What a call does to the browser.  A call's result is the exception it   *)
(* propagates ("None": it returns), the value it returns, the clicks and   *)
(* keystrokes it sends, in order, and the element that has the focus       *)
(* afterwards, and the number of strings it has drawn with                  *)
(* generate_random_string().  A call that draws an option at random has    *)
(* one result per option.                                                  *)

Res(raised, ret, sent, foc) ==
  [exc |-> raised, ret |-> ret, events |-> sent, focused |-> foc, drawn |-> 0]

\* the result r of a call that has drawn n strings more
Drew(r, n) == [r EXCEPT !.drawn = @ + n]

KeyEvent(el, key) == [op |-> "send_keys", el |-> el, key |-> key]

ClickEvent(el) == [op |-> "click", el |-> el, key |-> ""]

\* driver.switch_to.active_element after a click on el.  Which element a click
\* leaves active is the page's answer, not the bot's: each element of a page
\* names the element its click hands the focus to (0: the clicked element
\* itself), which may be anywhere on the page
FocusAfterClick(page, el) == IF page[el].focus = 0 THEN el ELSE page[el].focus

\* bool(value), as "if checked:" takes it
Truthy(value) ==
  CASE value.ty = "bool" -> value.b
    [] value.ty = "int" -> value.n # 0
    [] value.ty = "str" -> Len(value.chars) > 0
    [] value.ty = "list" -> Len(value.items) > 0
    [] value.ty = "NoneType" -> FALSE
    \* an object without __bool__ and __len__: an Enum member, a WebElement
    [] value.ty \in {"GoogleFormBotFieldType", "WebElement"} -> TRUE

\* press_enter_key(element): one ENTER keystroke; None has no send_keys
press_enter_key(el, foc) ==
  IF el = 0 THEN Res("AttributeError", PyNone, <<>>, foc)
  ELSE Res("None", PyNone, <<KeyEvent(el, "ENTER")>>, foc)

\* simulate_typing(element, content): the content, converted with str() unless
\* it is a str, sent one character at a time; with element None the first
\* send_keys raises, and an empty content sends nothing
simulate_typing(el, content, foc) ==
  LET converted_content == StrOf(content)
  IN IF Len(converted_content) = 0 THEN Res("None", PyNone, <<>>, foc)
     ELSE IF el = 0 THEN Res("AttributeError", PyNone, <<>>, foc)
     ELSE Res("None", PyNone,
              [k \in 1..Len(converted_content) |-> KeyEvent(el, converted_content[k])],
              foc)

\* the filter every locator applies to the page's spans: innerHTML is not None
\* and innerHTML.strip().lower() == label.lower()
LabelSpans(page, label) ==
  Filter(driver_find_elements(page, "span"),
         {e \in 1..Len(page) :
            /\ get_attribute(page, e, "innerHTML") # PyNone
            /\ Lower(Strip(get_attribute(page, e, "innerHTML").chars)) = Lower(label)})

\* found.find_element(...) with the path "../" repeated levels times.  The
\* bot passes the path either as the locator strategy itself (shape "by":
\* find_element('../../../../')) or as an XPath that ends in a slash (shape
\* "xpath").  Whether the driver resolves such a locator is the driver's
\* answer: acc holds the shapes it resolves, and it raises for the others.
find_ancestor(page, acc, el, levels, shape) ==
  IF shape \notin acc
  THEN [exc |-> IF shape = "by" THEN "InvalidArgumentException"
                ELSE "InvalidSelectorException", el |-> 0]
  ELSE IF Ancestor(page, el, levels) = 0
       THEN [exc |-> "NoSuchElementException", el |-> 0]
       ELSE [exc |-> "None", el |-> Ancestor(page, el, levels)]

\* GoogleFormBot.get_input_by_label: the first input below the fourth parent
\* of the last matching span; None when no span matches
get_input_by_label(page, acc, label) ==
  LET found_elements == LabelSpans(page, label)
  IN IF Len(found_elements) > 0
     THEN LET fourth_parent == find_ancestor(page, acc, Last(found_elements), 4, "by")
          IN IF fourth_parent.exc # "None" THEN fourth_parent
             ELSE LET inputs == find_elements(page, fourth_parent.el, "input")
                  IN IF Len(inputs) = 0
                     THEN [exc |-> "NoSuchElementException", el |-> 0]
                     ELSE [exc |-> "None", el |-> inputs[1]]
     ELSE [exc |-> "None", el |-> 0]

\* GoogleFormBot.get_mutliselect_by_label: the last div with role listbox below
\* the fourth parent of the last matching span; None when there is none
get_mutliselect_by_label(page, acc, label) ==
  LET found_elements == LabelSpans(page, label)
  IN IF Len(found_elements) > 0
     THEN LET fourth_parent == find_ancestor(page, acc, Last(found_elements), 4, "by")
          IN IF fourth_parent.exc # "None" THEN fourth_parent
             ELSE LET all_divs_of_parent == find_elements(page, fourth_parent.el, "div")
                      multiselect_elements ==
                        Filter(all_divs_of_parent,
                               {e \in 1..Len(page) :
                                  get_attribute(page, e, "role") = PyStr(STR_listbox)})
                  IN IF Len(all_divs_of_parent) > 0 /\ Len(multiselect_elements) > 0
                     THEN [exc |-> "None", el |-> Last(multiselect_elements)]
                     ELSE [exc |-> "None", el |-> 0]
     ELSE [exc |-> "None", el |-> 0]

\* select_random_multiselect_option: a click on one option (a div with role
\* option and a data-value) drawn at random; nothing when there is no option;
\* None has no find_elements
select_random_multiselect_option(page, el, foc) ==
  IF el = 0 THEN {Res("AttributeError", PyNone, <<>>, foc)}
  ELSE LET all_divs == find_elements(page, el, "div")
           all_options ==
             Filter(all_divs,
                    {e \in 1..Len(page) :
                       /\ get_attribute(page, e, "role") = PyStr(STR_option)
                       /\ get_attribute(page, e, "data-value") # PyNone})
       IN IF Len(all_options) > 0
          THEN {Res("None", PyNone, <<ClickEvent(all_options[k])>>,
                    FocusAfterClick(page, all_options[k])) : k \in 1..Len(all_options)}
          ELSE {Res("None", PyNone, <<>>, foc)}

\* GoogleFormBot.select_multiselect_option
select_multiselect_option(page, acc, label, foc) ==
  LET found_multiselect == get_mutliselect_by_label(page, acc, label)
  IN IF found_multiselect.exc # "None"
     THEN {Res(found_multiselect.exc, PyNone, <<>>, foc)}
     ELSE select_random_multiselect_option(page, found_multiselect.el, foc)

\* string.ascii_lowercase, as the set of its letters
ascii_lowercase == {LowerCase[k] : k \in 1..Len(LowerCase)}

\* generate_random_string(length): ''.join(choices(ascii_lowercase, k=length)),
\* length independent draws of a lowercase letter; the set of its outcomes
generate_random_string(length) == [1..length -> ascii_lowercase]

\* the k-th letter of the n-th string that generate_random_string() returns
\* in a run.  Which letter of ascii_lowercase it is, is left open: the bot
\* never reads a letter it has drawn, it only hands the string to send_keys,
\* so the run with the letters left open stands for the runs with every
\* outcome of generate_random_string
DrawnLetter(n, k) == "drawn " \o ToString(n) \o "[" \o ToString(k - 1) \o "]"

\* the strings the next calls of generate_random_string() return, in order,
\* when n strings were drawn before: more of them than one call draws
Upcoming(n) ==
  [i \in 1..(MaxChoose + 1) |->
     [k \in 1..RandomStringLength |-> DrawnLetter(n + i, k)]]

\* the clicks and keystrokes of sent in the run in which the strings drawn
\* are those of drawn, in order: every letter left open is the letter drawn
TypedWhenDrawn(sent, drawn) ==
  [i \in 1..Len(sent) |->
     LET places == {place \in (1..Len(drawn)) \X (1..RandomStringLength) :
                      sent[i].key = DrawnLetter(place[1], place[2])}
     IN IF places = {} THEN sent[i]
        ELSE LET place == CHOOSE place \in places : TRUE
             IN [sent[i] EXCEPT !.key = drawn[place[1]][place[2]]]]

\* GoogleFormBot.enter_text_in_text_input.  upcoming holds the strings the
\* next calls of generate_random_string() return; the argument of
\* simulate_typing is evaluated, and the string drawn, before the call
enter_text_in_text_input(page, acc, label, content, foc, upcoming) ==
  LET found_input == get_input_by_label(page, acc, label)
  IN IF found_input.exc # "None" THEN {Res(found_input.exc, PyNone, <<>>, foc)}
     ELSE IF content = PyNone
          THEN {Drew(simulate_typing(found_input.el, PyStr(Head(upcoming)), foc), 1)}
          ELSE {simulate_typing(found_input.el, content, foc)}

\* GoogleFormBot.check_singular_textbox: a click on the last div with role
\* checkbox below the third parent of the last matching span, when checked
check_singular_textbox(page, acc, label, checked, foc) ==
  LET all_spans == driver_find_elements(page, "span")
      found_label_span == LabelSpans(page, label)
  IN IF Len(all_spans) > 0 /\ Len(found_label_span) > 0
     THEN LET third_parent == find_ancestor(page, acc, Last(found_label_span), 3, "xpath")
          IN IF third_parent.exc # "None"
             THEN {Res(third_parent.exc, PyNone, <<>>, foc)}
             ELSE LET parent_divs == find_elements(page, third_parent.el, "div")
                      found_checkboxes ==
                        Filter(parent_divs,
                               {e \in 1..Len(page) :
                                  get_attribute(page, e, "role") = PyStr(STR_checkbox)})
                  IN IF Len(parent_divs) > 0 /\ Len(found_checkboxes) > 0 /\ Truthy(checked)
                     THEN {Res("None", PyNone, <<ClickEvent(Last(found_checkboxes))>>,
                               FocusAfterClick(page, Last(found_checkboxes)))}
                     ELSE {Res("None", PyNone, <<>>, foc)}
     ELSE {Res("None", PyNone, <<>>, foc)}

\* the inputs with role combobox, whatever their aria-label
DateInputsOfAnyLabel(page, inputs, aria_label) ==
  Filter(inputs,
         {e \in 1..Len(page) :
            /\ get_attribute(page, e, "role") # PyNone
            /\ Lower(Strip(get_attribute(page, e, "role").chars)) = STR_combobox})

\* the inputs of a date widget with role combobox and the given aria-label,
\* both compared stripped and lowercased
DateInputs(page, inputs, aria_label) ==
  Filter(inputs,
         {e \in 1..Len(page) :
            /\ get_attribute(page, e, "role") # PyNone
            /\ get_attribute(page, e, "aria-label") # PyNone
            /\ Lower(Strip(get_attribute(page, e, "role").chars)) = STR_combobox
            /\ Lower(Strip(get_attribute(page, e, "aria-label").chars)) = aria_label})

\* one simulate_typing after another: the second runs only if the first returns
ThenType(first, el, content) ==
  IF first.exc # "None" THEN first
  ELSE LET second == simulate_typing(el, content, first.focused)
       IN Res(second.exc, PyNone, first.events \o second.events, second.focused)

\* GoogleFormBot.enter_date: month, day and year typed into the last month, day
\* and year input below the fourth parent of the last matching span, when all
\* three are found
enter_date(page, acc, label, month, day, year, foc) ==
  LET all_spans == driver_find_elements(page, "span")
      found_label_spans == LabelSpans(page, label)
  IN IF Len(all_spans) > 0 /\ Len(found_label_spans) > 0
     THEN LET fourth_parent ==
                find_ancestor(page, acc, Last(found_label_spans), 4, "xpath")
          IN IF fourth_parent.exc # "None"
             THEN {Res(fourth_parent.exc, PyNone, <<>>, foc)}
             ELSE LET fourth_parent_inputs == find_elements(page, fourth_parent.el, "input")
                      found_month_inputs == DateInputs(page, fourth_parent_inputs, STR_month)
                      found_day_inputs ==
                        DateInputs(page, fourth_parent_inputs, STR_day_of_the_month)
                      found_year_inputs == DateInputs(page, fourth_parent_inputs, STR_year)
                  IN IF /\ Len(fourth_parent_inputs) > 0
                        /\ Len(found_month_inputs) > 0
                        /\ Len(found_day_inputs) > 0
                        /\ Len(found_year_inputs) > 0
                     THEN {ThenType(ThenType(simulate_typing(Last(found_month_inputs),
                                                             month, foc),
                                             Last(found_day_inputs), day),
                                    Last(found_year_inputs), year)}
                     ELSE {Res("None", PyNone, <<>>, foc)}
     ELSE {Res("None", PyNone, <<>>, foc)}

RECURSIVE CheckboxDraws(_, _, _, _, _, _)
\* the loop "for i in range(choose_amount)" of select_multiple_checkboxes:
\* choice(found_list_options) raises IndexError on an empty list; the drawn
\* option is clicked and, when the focus then is on an input, other_text (a
\* random string when it is None, drawn anew each time: the next of upcoming)
\* is typed there
CheckboxDraws(page, found_list_options, choose_amount, other_text, foc, upcoming) ==
  IF choose_amount <= 0 THEN {Res("None", PyNone, <<>>, foc)}
  ELSE IF Len(found_list_options) = 0 THEN {Res("IndexError", PyNone, <<>>, foc)}
  ELSE UNION {
    LET random_option == found_list_options[k]
        focused_element == FocusAfterClick(page, random_option)
        draws == page[focused_element].tag = "input" /\ other_text = PyNone
        typed ==
          IF page[focused_element].tag = "input"
          THEN IF other_text = PyNone
               THEN Drew(simulate_typing(focused_element, PyStr(Head(upcoming)),
                                         focused_element), 1)
               ELSE simulate_typing(focused_element, other_text, focused_element)
          ELSE Res("None", PyNone, <<>>, focused_element)
    IN IF typed.exc # "None"
       THEN {Drew(Res(typed.exc, PyNone, <<ClickEvent(random_option)>> \o typed.events,
                      typed.focused), typed.drawn)}
       ELSE {Drew(Res(rest.exc, PyNone,
                      <<ClickEvent(random_option)>> \o typed.events \o rest.events,
                      rest.focused), typed.drawn + rest.drawn) :
               rest \in CheckboxDraws(page, found_list_options, choose_amount - 1,
                                      other_text, typed.focused,
                                      IF draws THEN Tail(upcoming) ELSE upcoming)}
    : k \in 1..Len(found_list_options)}

\* GoogleFormBot.select_multiple_checkboxes: choose_amount draws among the divs
\* with role listitem below the last div with role list below the fourth
\* parent of the last matching span
select_multiple_checkboxes(page, acc, label, choose_amount, other_text, foc, upcoming) ==
  LET all_spans == driver_find_elements(page, "span")
      found_label_spans == LabelSpans(page, label)
  IN IF Len(all_spans) > 0 /\ Len(found_label_spans) > 0
     THEN LET fourth_parent ==
                find_ancestor(page, acc, Last(found_label_spans), 4, "xpath")
          IN IF fourth_parent.exc # "None"
             THEN {Res(fourth_parent.exc, PyNone, <<>>, foc)}
             ELSE LET fourth_parent_divs == find_elements(page, fourth_parent.el, "div")
                      found_list_divs ==
                        Filter(fourth_parent_divs,
                               {e \in 1..Len(page) :
                                  /\ get_attribute(page, e, "role") # PyNone
                                  /\ Lower(Strip(get_attribute(page, e, "role").chars))
                                       = STR_list})
                  IN IF Len(fourth_parent_divs) > 0 /\ Len(found_list_divs) > 0
                     THEN LET found_list == Last(found_list_divs)
                              list_divs == find_elements(page, found_list, "div")
                              found_list_options ==
                                Filter(list_divs,
                                       {e \in 1..Len(page) :
                                          get_attribute(page, e, "role") = PyStr(STR_listitem)})
                          IN IF Len(list_divs) > 0
                             THEN CheckboxDraws(page, found_list_options, choose_amount,
                                                other_text, foc, upcoming)
                             ELSE {Res("None", PyNone, <<>>, foc)}
                     ELSE {Res("None", PyNone, <<>>, foc)}
     ELSE {Res("None", PyNone, <<>>, foc)}

----------------------------------------------------------------------------
(* The pages the bot is run against.  A page is built from form items: an  *)
(* item is a container div, three nested divs and the label span, so that  *)
(* the container is the span's fourth parent and the outermost nested div  *)
(* its third, followed by the item's widget below that nested div.         *)

Attr(name, value) == [a \in {name} |-> value]

Attrs2(name1, value1, name2, value2) ==
  [a \in {name1, name2} |-> IF a = name1 THEN value1 ELSE value2]

\* the container, the nested divs and the label span of an item placed after
\* base elements
LabelPart(base, html) ==
  << El("div", 0, NoAttrs, 0),
     El("div", base + 1, NoAttrs, 0),
     El("div", base + 2, NoAttrs, 0),
     El("div", base + 3, NoAttrs, 0),
     El("span", base + 4, Attr("innerHTML", html), 0) >>

\* the widget of an item of the given kind, below element base + 2
WidgetPart(base, kind) ==
  CASE kind = "TEXT" ->
         << El("input", base + 2, Attr("type", <<"t","e","x","t">>), 0) >>
    [] kind = "MULTI_SELECT" ->
         << El("div", base + 2, Attr("role", STR_listbox), 0),
            \* the placeholder option carries no data-value
            El("div", base + 6, Attr("role", STR_option), 0),
            El("div", base + 6, Attrs2("role", STR_option, "data-value", <<"A">>), 0),
            El("div", base + 6, Attrs2("role", STR_option, "data-value", <<"B">>), 0) >>
    [] kind = "SINGLE_CHECKBOX" ->
         << El("div", base + 2, Attr("role", STR_checkbox), 0) >>
    [] kind = "DATE" ->
         << El("input", base + 2,
               Attrs2("role", STR_combobox, "aria-label", <<"M","o","n","t","h">>), 0),
            El("input", base + 2,
               Attrs2("role", STR_combobox, "aria-label",
                      <<"D","a","y"," ","o","f"," ","t","h","e"," ","m","o","n","t","h">>), 0),
            El("input", base + 2,
               Attrs2("role", STR_combobox, "aria-label", <<"Y","e","a","r">>), 0) >>
    [] kind = "MULTI_CHECKBOX" ->
         << El("div", base + 2, Attr("role", STR_list), 0),
            El("div", base + 6, Attr("role", STR_listitem), 0),
            \* the "Other" option hands the focus to its text input
            El("div", base + 6, Attr("role", STR_listitem), base + 9),
            El("input", base + 8, Attr("type", <<"t","e","x","t">>), 0) >>
    [] kind = "DATE_NO_YEAR" ->
         << El("input", base + 2,
               Attrs2("role", STR_combobox, "aria-label", <<"M","o","n","t","h">>), 0),
            El("input", base + 2,
               Attrs2("role", STR_combobox, "aria-label",
                      <<"D","a","y"," ","o","f"," ","t","h","e"," ","m","o","n","t","h">>), 0) >>
    [] kind = "LIST_WITHOUT_ITEMS" ->
         << El("div", base + 2, Attr("role", STR_list), 0),
            El("div", base + 6, NoAttrs, 0) >>
    [] kind = "LABEL_ONLY" -> << >>

RECURSIVE BuildPage(_, _)
\* the page holding the given items, in order, after the elements of acc
BuildPage(items, acc) ==
  IF Len(items) = 0 THEN acc
  ELSE BuildPage(Tail(items),
                 acc \o LabelPart(Len(acc), Head(items).html)
                     \o WidgetPart(Len(acc), Head(items).kind))

\* the catalog's entries as form items: each label as the form shows it, here
\* padded with whitespace, and the widget of the entry's kind
CatalogItems ==
  [i \in 1..NumFields |->
     [kind |-> InitialFields[i - 1].items[1].name,
      html |-> <<" ">> \o InitialFields[i - 1].items[3].chars \o <<"\n">>]]

\* the form with every field of the catalog
FormPage == BuildPage(CatalogItems, <<>>)

\* the form cut after its first fields
PartialPage == BuildPage(SubSeq(CatalogItems, 1, 6), <<>>)

\* the form's labels without any widget
LabelsOnlyPage ==
  BuildPage([i \in 1..NumFields |-> [kind |-> "LABEL_ONLY", html |-> CatalogItems[i].html]],
            <<>>)

\* the items of a form that shows labels twice, in another case and with
\* other whitespace around them, the second time with a widget that lacks
\* a part: a date without its year input and a list without list items; its
\* last label is not in the catalog
VariantItems ==
  << [kind |-> "SINGLE_CHECKBOX",
      html |-> <<"e","m","a","i","l">>],
     [kind |-> "SINGLE_CHECKBOX",
      html |-> <<" ","E","M","A","I","L","\n","">>],
     [kind |-> "TEXT",
      html |-> <<"L","a","s","t"," ","N","a","m","e">>],
     [kind |-> "TEXT",
      html |-> <<"","l","a","s","t"," ","n","a","m","e"," ">>],
     [kind |-> "MULTI_SELECT",
      html |-> <<"C","o","u","n","t","r","y"," ","o","f"," ","C","i","t","i","z","e","n","s","h","i","p">>],
     [kind |-> "MULTI_SELECT",
      html |-> <<"\f","\t","C","O","U","N","T","R","Y"," ","O","F"," ","C","I","T","I","Z","E","N","S","H","I","P">>],
     [kind |-> "DATE",
      html |-> <<"B","e","g","i","n"," ","D","a","t","e"," ","o","f"," ","T","A"," ","C","o","n","t","r","a","c","t">>],
     [kind |-> "DATE_NO_YEAR",
      html |-> <<"","b","e","g","i","n"," ","d","a","t","e"," ","o","f"," ","t","a"," ","c","o","n","t","r","a","c","t","">>],
     [kind |-> "MULTI_CHECKBOX",
      html |-> <<"N","a","m","e"," ","o","f"," ","S","t","u","d","e","n","t","'","s"," ","P","r","o","g","r","a","m">>],
     [kind |-> "LIST_WITHOUT_ITEMS",
      html |-> <<"N","A","M","E"," ","O","F"," ","S","T","U","D","E","N","T","'","S"," ","P","R","O","G","R","A","M","",""," ">>],
     [kind |-> "TEXT",
      html |-> <<"r","é","s","u","m","é">>],
     [kind |-> "TEXT",
      html |-> <<" ","R","É","S","U","M","É">>] >>

\* that form, followed by an item whose span has no innerHTML
VariantsPage ==
  LET items == BuildPage(VariantItems, <<>>)
      base == Len(items)
  IN items \o << El("div", 0, NoAttrs, 0),
                 El("div", base + 1, NoAttrs, 0),
                 El("div", base + 2, NoAttrs, 0),
                 El("div", base + 3, NoAttrs, 0),
                 El("span", base + 4, NoAttrs, 0),
                 El("input", base + 2, Attr("type", <<"t","e","x","t">>), 0) >>

\* a form whose script keeps the focus on its first text input: a text item,
\* then a list of checkboxes whose second option, when clicked, hands the
\* focus back to the input of the text item, outside the list's container
StrayFocusPage ==
  LET text_item ==
        BuildPage(<< [kind |-> "TEXT",
                      html |-> <<"L","a","s","t"," ","N","a","m","e">>] >>, <<>>)
      base == Len(text_item)
  IN text_item
       \o LabelPart(base, <<"N","a","m","e"," ","o","f"," ","S","t","u","d","e","n","t","'","s"," ","P","r","o","g","r","a","m">>)
       \o << El("div", base + 2, Attr("role", STR_list), 0),
             El("div", base + 6, Attr("role", STR_listitem), 0),
             El("div", base + 6, Attr("role", STR_listitem), base) >>

\* a page without any element of interest, such as a login page
EmptyPage == <<>>

\* the Google sign-in page asking for the email address
GoogleEmailPage ==
  << El("div", 0, NoAttrs, 0),
     El("input", 1, Attr("type", <<"e","m","a","i","l">>), 0),
     El("input", 1, Attr("type", <<"h","i","d","d","e","n">>), 0) >>

\* the Google sign-in page asking for the password; it still carries the
\* email address in an input of type email
GooglePasswordPage ==
  << El("div", 0, NoAttrs, 0),
     El("input", 1, Attr("type", <<"e","m","a","i","l">>), 0),
     El("input", 1, Attr("type", <<"p","a","s","s","w","o","r","d">>), 0) >>

\* the university's login page: username and password
UdelLoginPage ==
  << El("div", 0, NoAttrs, 0),
     El("input", 1, Attrs2("id", <<"u","s","e","r","n","a","m","e">>,
                           "type", <<"t","e","x","t">>), 0),
     El("input", 1, Attrs2("id", <<"p","a","s","s","w","o","r","d">>,
                           "type", <<"p","a","s","s","w","o","r","d">>), 0) >>

\* the university's login page with a username input of type email
UdelEmailLoginPage ==
  << El("div", 0, NoAttrs, 0),
     El("input", 1, Attrs2("id", <<"u","s","e","r","n","a","m","e">>,
                           "type", <<"e","m","a","i","l">>), 0),
     El("input", 1, Attrs2("id", <<"p","a","s","s","w","o","r","d">>,
                           "type", <<"p","a","s","s","w","o","r","d">>), 0) >>

\* the university's second-factor page: the one-time password
UdelOtpPage ==
  << El("div", 0, NoAttrs, 0),
     El("input", 1, Attrs2("id", <<"t","o","k","e","n">>,
                           "type", <<"t","e","x","t">>), 0) >>

\* the pages, by name; "blank" is the page a started browser shows and
\* "elsewhere" a page of another site
Pages ==
  [ form |-> FormPage,
    partial |-> PartialPage,
    labels_only |-> LabelsOnlyPage,
    variants |-> VariantsPage,
    stray_focus |-> StrayFocusPage,
    empty |-> EmptyPage,
    blank |-> EmptyPage,
    elsewhere |-> EmptyPage,
    unsplittable |-> EmptyPage,
    google_email |-> GoogleEmailPage,
    google_password |-> GooglePasswordPage,
    udel_login |-> UdelLoginPage,
    udel_email_login |-> UdelEmailLoginPage,
    udel_otp |-> UdelOtpPage ]

\* the URL passed to navigate by the main script
FormUrl ==
  <<"h","t","t","p","s",":","/","/","d","o","c","s",".","g","o","o","g","l","e",".","c","o","m","/","f","o","r","m","s","/","d","/","e","/","1","F","A","I","p","Q","L","S","e","C","n","z","Q","7","K","a","x","9","u","6","_","u","Z","Q","D","b","H","i","J","r","P","P","7","6","i","M","U","g","3","e","J","v","Z","M","m","V","3","f","2","x","Z","U","8","v","s","Q","/","v","i","e","w","f","o","r","m">>

\* driver.current_url on each page
PageUrls ==
  [ form |-> FormUrl,
    partial |-> FormUrl,
    labels_only |-> FormUrl,
    variants |-> FormUrl,
    stray_focus |-> FormUrl,
    empty |-> FormUrl,
    blank |-> <<"d","a","t","a",":",",">>,
    elsewhere |-> <<"h","t","t","p","s",":","/","/","e","x","a","m","p","l","e",".","o","r","g">>,
    \* a URL whose host opens a bracket that it does not close
    unsplittable |-> <<"h","t","t","p",":","/","/","[","x","/","p">>,
    google_email |-> <<"h","t","t","p","s",":","/","/","a","c","c","o","u","n","t","s",".","g","o","o","g","l","e",".","c","o","m","/","v","3","/","s","i","g","n","i","n","/","i","d","e","n","t","i","f","i","e","r","?","c","o","n","t","i","n","u","e","=","f","o","r","m","s","#","i","d">>,
    google_password |-> <<"h","t","t","p","s",":","/","/","a","c","c","o","u","n","t","s",".","g","o","o","g","l","e",".","c","o","m","/","v","3","/","s","i","g","n","i","n","/","c","h","a","l","l","e","n","g","e","/","p","w","d">>,
    udel_login |-> <<"h","t","t","p","s",":","/","/","c","a","s",".","n","s","s",".","u","d","e","l",".","e","d","u","/","c","a","s","/","l","o","g","i","n","?","s","e","r","v","i","c","e","=","f","o","r","m","s">>,
    udel_email_login |-> <<"h","t","t","p","s",":","/","/","c","a","s",".","n","s","s",".","u","d","e","l",".","e","d","u","/","c","a","s","/","l","o","g","i","n","?","s","e","r","v","i","c","e","=","f","o","r","m","s">>,
    udel_otp |-> <<"h","t","t","p","s",":","/","/","c","a","s",".","n","s","s",".","u","d","e","l",".","e","d","u","/","c","a","s","/","o","t","p">> ]

\* the pages a form-filling bot is run against
FormPages == {"form", "partial", "labels_only", "variants", "stray_focus", "empty"}

\* the pages driver.get(FormUrl) can end on: the form itself, a login page it
\* redirects to, a page of another site, or a page whose URL urlsplit rejects
LandingPages ==
  {"form", "google_email", "udel_login", "udel_email_login", "elsewhere", "unsplittable"}

\* the pages the browser can show after ENTER is pressed on a page: the same
\* page (nothing is submitted, or the next page has not loaded yet) or the
\* next page of the login
AfterEnter(page_name) ==
  CASE page_name = "google_email" -> {"google_email", "google_password", "udel_login"}
    [] page_name = "google_password" -> {"google_password", "form"}
    [] page_name = "udel_login" -> {"udel_login", "udel_otp"}
    [] page_name = "udel_email_login" -> {"udel_email_login", "udel_otp"}
    [] page_name = "udel_otp" -> {"udel_otp", "form"}
    [] OTHER -> {page_name}

----------------------------------------------------------------------------
(* SeleniumBot: driver discovery, navigation and the two logins.           *)

\* the position of the first character of s from position from on that is in
\* set, Len(s) + 1 when there is none: str.find
FindFirst(s, set, from) ==
  IF \E k \in from..Len(s) : s[k] \in set
  THEN CHOOSE k \in from..Len(s) : s[k] \in set /\ \A j \in from..(k - 1) : s[j] \notin set
  ELSE Len(s) + 1

\* urllib.parse.scheme_chars: the characters allowed in a URL scheme
SchemeChars ==
  {LowerCase[k] : k \in 1..26} \cup {UpperCase[k] : k \in 1..26}
    \cup {Digits[k] : k \in 1..10} \cup {"+", "-", "."}

\* the characters urlsplit strips from the start of a URL: the C0 control
\* characters and the space (code points 1 to 32; no str of the model holds
\* code point 0)
C0ControlOrSpace ==
  {"","","","","","","","","\t","\n","","\f","\r","","","","","","","","","","","","","","","","","",""," "}

\* whether the character occurs in the string: "c in s"
Contains(s, c) == \E k \in 1..Len(s) : s[k] = c

RECURSIVE Split(_, _)
\* str.split(sep) for a separator of one character
Split(s, sep) ==
  LET at == FindFirst(s, {sep}, 1)
  IN IF at > Len(s) THEN <<s>>
     ELSE <<SubSeq(s, 1, at - 1)>> \o Split(SubSeq(s, at + 1, Len(s)), sep)

RECURSIVE DecimalValue(_)
\* int(s, 10) for a string of decimal digits
DecimalValue(s) ==
  IF Len(s) = 0 THEN 0
  ELSE 10 * DecimalValue(SubSeq(s, 1, Len(s) - 1))
         + (CHOOSE d \in 0..9 : Digits[d + 1] = s[Len(s)])

\* ipaddress.IPv4Address(addr_str) returns: four octets between dots, each
\* (_parse_octet) one to three decimal digits without a leading zero, at most
\* 255
IsIPv4Address(addr_str) ==
  /\ ~Contains(addr_str, "/")
  /\ Len(addr_str) > 0
  /\ LET octets == Split(addr_str, ".")
         ParsesAsOctet(octet_str) ==
           /\ Len(octet_str) \in 1..3
           /\ \A k \in 1..Len(octet_str) : octet_str[k] \in {Digits[d] : d \in 1..10}
           /\ octet_str = <<"0">> \/ octet_str[1] # "0"
           /\ DecimalValue(octet_str) <= 255
     IN /\ Len(octets) = 4
        /\ \A k \in 1..4 : ParsesAsOctet(octets[k])

HexDigits ==
  {Digits[d] : d \in 1..10} \cup {"a", "b", "c", "d", "e", "f", "A", "B", "C", "D", "E", "F"}

\* ipaddress.IPv6Address._parse_hextet returns: one to four hex digits
ParsesAsHextet(hextet_str) ==
  /\ Len(hextet_str) \in 1..4
  /\ \A k \in 1..Len(hextet_str) : hextet_str[k] \in HexDigits

\* ipaddress.IPv6Address._ip_int_from_string(ip_str) returns: three to nine
\* parts between colons, the last one possibly an IPv4 address, which counts
\* for two; one empty part inside at most (the "::"), an empty part at either
\* end only next to it, and then fewer than eight other parts; eight parts
\* without it; every other part a hextet
ParsesAsIPv6(ip_str) ==
  /\ Len(ip_str) > 0
  /\ LET split == Split(ip_str, ":")
         ipv4_suffix == Contains(Last(split), ".")
         parts == IF ipv4_suffix
                  THEN SubSeq(split, 1, Len(split) - 1) \o << <<"0">>, <<"0">> >>
                  ELSE split
         skipped == {i \in 2..(Len(parts) - 1) : Len(parts[i]) = 0}
     IN /\ Len(split) >= 3
        /\ ipv4_suffix => IsIPv4Address(Last(split))
        /\ Len(parts) <= 9
        /\ Cardinality(skipped) <= 1
        /\ IF skipped # {}
           THEN LET skip_index == CHOOSE i \in skipped : TRUE
                    parts_hi == IF Len(parts[1]) = 0 THEN skip_index - 2 ELSE skip_index - 1
                    parts_lo == IF Len(Last(parts)) = 0 THEN Len(parts) - skip_index - 1
                                ELSE Len(parts) - skip_index
                IN /\ Len(parts[1]) = 0 => parts_hi = 0
                   /\ Len(Last(parts)) = 0 => parts_lo = 0
                   /\ 8 - (parts_hi + parts_lo) >= 1
                   /\ \A i \in 1..parts_hi : ParsesAsHextet(parts[i])
                   /\ \A i \in (Len(parts) - parts_lo + 1)..Len(parts) :
                        ParsesAsHextet(parts[i])
           ELSE /\ Len(parts) = 8
                /\ \A i \in 1..8 : ParsesAsHextet(parts[i])

\* ipaddress.IPv6Address(addr_str) returns: an address, and after a "%" a
\* scope id that is not empty and holds no "%"
IsIPv6Address(addr_str) ==
  /\ ~Contains(addr_str, "/")
  /\ LET sep == FindFirst(addr_str, {"%"}, 1)
         scope_id == SubSeq(addr_str, sep + 1, Len(addr_str))
     IN /\ sep <= Len(addr_str) => (Len(scope_id) > 0 /\ ~Contains(scope_id, "%"))
        /\ ParsesAsIPv6(SubSeq(addr_str, 1, sep - 1))

\* urllib.parse._check_bracketed_host(hostname) returns: a host that starts
\* with "v" matches v[a-fA-F0-9]+\..+ (the newline, which "." does not match,
\* is removed from the URL before); any other host is one that
\* ipaddress.ip_address takes, first tried as an IPv4 address, which is
\* refused, then as an IPv6 address
BracketedHostIsValid(hostname) ==
  IF Len(hostname) > 0 /\ hostname[1] = "v"
  THEN LET dot == FindFirst(hostname, {"."}, 1)
       IN /\ dot > 2
          /\ dot < Len(hostname)
          /\ \A k \in 2..(dot - 1) : hostname[k] \in HexDigits
  ELSE ~IsIPv4Address(hostname) /\ IsIPv6Address(hostname)

\* urllib.parse.urlsplit(url).  The leading C0 control characters and spaces
\* are stripped and every tab, carriage return and newline is removed.  The
\* scheme is what stands before the first ":" when it starts with an ASCII
\* letter and holds scheme characters only, in lower case.  The netloc is
\* what follows "//" up to the first of "/", "?" and "#"; then come the
\* fragment after the first "#" and the query after the first "?", and what
\* is left is the path.  ValueError is raised when the netloc holds one of
\* "[" and "]" without the other, or both around a host that is not valid.
\* (The check of the netloc under NFKC normalisation raises for no character
\* that a str of the model holds.)
urlsplit(url) ==
  LET \* str.isascii() and str.isalpha() on one character
      AsciiLetters == {LowerCase[k] : k \in 1..26} \cup {UpperCase[k] : k \in 1..26}
      UnsafeUrlBytesToRemove == {"\t", "\r", "\n"}
      stripped == LStripChars(url, C0ControlOrSpace)
      cleaned == SelectSeq(stripped, LAMBDA c : c \notin UnsafeUrlBytesToRemove)
      colon == FindFirst(cleaned, {":"}, 1)
      has_scheme ==
        /\ colon > 1
        /\ colon <= Len(cleaned)
        /\ cleaned[1] \in AsciiLetters
        /\ \A k \in 1..(colon - 1) : cleaned[k] \in SchemeChars
      scheme == IF has_scheme THEN Lower(SubSeq(cleaned, 1, colon - 1)) ELSE <<>>
      rest1 == IF has_scheme THEN SubSeq(cleaned, colon + 1, Len(cleaned)) ELSE cleaned
      has_netloc == Len(rest1) >= 2 /\ rest1[1] = "/" /\ rest1[2] = "/"
      delim == FindFirst(rest1, {"/", "?", "#"}, 3)
      netloc == IF has_netloc THEN SubSeq(rest1, 3, delim - 1) ELSE <<>>
      rest2 == IF has_netloc THEN SubSeq(rest1, delim, Len(rest1)) ELSE rest1
      open == FindFirst(netloc, {"["}, 1)
      close == FindFirst(netloc, {"]"}, open + 1)
      bracketed_host == SubSeq(netloc, open + 1, close - 1)
      hash == FindFirst(rest2, {"#"}, 1)
      fragment == SubSeq(rest2, hash + 1, Len(rest2))
      rest3 == SubSeq(rest2, 1, hash - 1)
      mark == FindFirst(rest3, {"?"}, 1)
  IN IF Contains(netloc, "[") # Contains(netloc, "]")
     THEN [exc |-> "ValueError", ret |-> PyNone]
     ELSE IF Contains(netloc, "[") /\ ~BracketedHostIsValid(bracketed_host)
     THEN [exc |-> "ValueError", ret |-> PyNone]
     ELSE [exc |-> "None",
           ret |-> [scheme |-> scheme, netloc |-> netloc,
                    path |-> SubSeq(rest3, 1, mark - 1),
                    query |-> SubSeq(rest3, mark + 1, Len(rest3)),
                    fragment |-> fragment]]

\* the list specs of try_drivers: the driver types in the order they are tried
specs == <<"BRAVE", "CHROME", "CHROMIUM", "EDGE", "FIREFOX", "INTERNET_EXPLORER", "OPERA">>

\* get_driver(service, spec): the branches instantiate a driver of the type,
\* which succeeds on a machine where the type installs and raises elsewhere;
\* FIREFOX has no branch, so the function falls off its end and returns None
get_driver(spec, installed) ==
  IF spec \in {"CHROME", "CHROMIUM", "BRAVE", "EDGE", "INTERNET_EXPLORER", "OPERA"}
  THEN IF spec \in installed
       THEN [exc |-> "None", ret |-> spec]
       ELSE [exc |-> "WebDriverException", ret |-> "None"]
  ELSE [exc |-> "None", ret |-> "None"]

\* a base_url or a navigation that is not there yet
Unset == [unset |-> TRUE]

NoNavigation ==
  [called |-> FALSE, url |-> <<>>, get |-> "", read |-> "", split |-> "", ret |-> FALSE,
   before |-> Unset,
   printed_before |-> <<>>]

NoCall == [fn |-> "none", args |-> <<>>, exc |-> "None", ret |-> PyNone, sent |-> <<>>]

NoAnswers ==
  [google_email |-> <<>>, google_password |-> <<>>, udel_username |-> <<>>,
   udel_password |-> <<>>, otp_secret |-> <<>>]

\* the events of a call, each with the page it was sent to
Stamp(page_name, sent) ==
  [k \in 1..Len(sent) |->
     [page |-> page_name, op |-> sent[k].op, el |-> sent[k].el, key |-> sent[k].key]]

\* the inputs of the page whose attribute has the value, in document order
InputsWith(page, attribute, value) ==
  Filter(driver_find_elements(page, "input"),
         {e \in 1..Len(page) : get_attribute(page, e, attribute) = PyStr(value)})

\* simulate_typing(element, text) followed by press_enter_key(element)
TypeAndEnter(el, text, foc) ==
  LET typed == simulate_typing(el, PyStr(text), foc)
      entered == press_enter_key(el, foc)
  IN IF typed.exc # "None" THEN typed
     ELSE Res(entered.exc, PyNone, typed.events \o entered.events, foc)

\* SeleniumBot.enter_email_google_account: the email typed into the last input
\* of type email, then ENTER; an Exception when there is no such input
enter_email_google_account(page, email_or_phone, foc) ==
  LET email_or_phone_login == InputsWith(page, "type", <<"e","m","a","i","l">>)
  IN IF Len(email_or_phone_login) = 0 THEN Res("Exception", PyNone, <<>>, foc)
     ELSE TypeAndEnter(Last(email_or_phone_login), email_or_phone, foc)

\* SeleniumBot.enter_password_google_account
enter_password_google_account(page, password, foc) ==
  LET password_inputs == InputsWith(page, "type", <<"p","a","s","s","w","o","r","d">>)
  IN IF Len(password_inputs) = 0 THEN Res("Exception", PyNone, <<>>, foc)
     ELSE TypeAndEnter(Last(password_inputs), password, foc)

\* the username typed and ENTER pressed after it
enter_username_then_enter(page, username, foc) ==
  LET found_username_inputs == InputsWith(page, "id", <<"u","s","e","r","n","a","m","e">>)
  IN IF Len(driver_find_elements(page, "input")) = 0 \/ Len(found_username_inputs) = 0
     THEN Res("Exception", PyNone, <<>>, foc)
     ELSE TypeAndEnter(Last(found_username_inputs), username, foc)

\* SeleniumBot.enter_username_udel_account: typed without ENTER
enter_username_udel_account(page, username, foc) ==
  LET found_username_inputs == InputsWith(page, "id", <<"u","s","e","r","n","a","m","e">>)
  IN IF Len(driver_find_elements(page, "input")) = 0 \/ Len(found_username_inputs) = 0
     THEN Res("Exception", PyNone, <<>>, foc)
     ELSE simulate_typing(Last(found_username_inputs), PyStr(username), foc)

\* SeleniumBot.enter_password_udel_account
enter_password_udel_account(page, password, foc) ==
  LET found_password_inputs == InputsWith(page, "id", <<"p","a","s","s","w","o","r","d">>)
  IN IF Len(driver_find_elements(page, "input")) = 0 \/ Len(found_password_inputs) = 0
     THEN Res("Exception", PyNone, <<>>, foc)
     ELSE TypeAndEnter(Last(found_password_inputs), password, foc)

\* SeleniumBot.enter_otp_udel_account
enter_otp_udel_account(page, otp_code, foc) ==
  LET found_token_inputs == InputsWith(page, "id", <<"t","o","k","e","n">>)
  IN IF Len(driver_find_elements(page, "input")) = 0 \/ Len(found_token_inputs) = 0
     THEN Res("Exception", PyNone, <<>>, foc)
     ELSE TypeAndEnter(Last(found_token_inputs), otp_code, foc)

\* whether a call pressed ENTER
PressedEnter(r) == \E k \in 1..Len(r.events) : r.events[k].key = "ENTER"

\* what a call of the main script does to the browser and to the script: its
\* events are sent, ENTER lets the browser move on, and an exception, which
\* nothing catches, ends the script
Perform(r, next_pc) ==
  /\ events' = events \o Stamp(page_id, r.events)
  /\ page_id' \in IF PressedEnter(r) THEN AfterEnter(page_id) ELSE {page_id}
  /\ focused' = IF page_id' = page_id THEN r.focused ELSE 0
  /\ exc' = r.exc
  /\ pc' = IF r.exc = "None" THEN next_pc ELSE "crashed"

\* one iteration of the loop of try_drivers: the driver of the next type is
\* returned, or the exception of its instantiation is printed and the loop
\* goes on; after the last type the function returns None
try_drivers ==
  /\ pc = "find_webdriver"
  /\ IF spec_index < Len(specs)
     THEN LET got == get_driver(specs[spec_index + 1], installs)
          IN IF got.exc = "None"
             THEN /\ driver' = got.ret
                  /\ pc' = "seleniumbot_init"
                  /\ UNCHANGED <<spec_index, printed>>
             ELSE /\ printed' = Append(printed, got.exc)
                  /\ spec_index' = spec_index + 1
                  /\ UNCHANGED <<driver, pc>>
     ELSE /\ driver' = "None"
          /\ pc' = "seleniumbot_init"
          /\ UNCHANGED <<spec_index, printed>>
  /\ UNCHANGED <<n_drawn, exc, last_call, botVars, browserVars, installs, base_url, nav, n_navigations, answers>>

\* SeleniumBot.__init__ after find_webdriver has returned: the page load
\* timeout is set on the driver, which None does not have, and base_url is
\* the split URL of the page the started browser shows; nothing catches an
\* exception of either
seleniumbot_init ==
  /\ pc = "seleniumbot_init"
  /\ IF driver = "None"
     THEN /\ exc' = "AttributeError"
          /\ pc' = "crashed"
          /\ UNCHANGED base_url
     ELSE LET split_url == urlsplit(PageUrls[page_id])
          IN IF split_url.exc # "None"
             THEN /\ exc' = split_url.exc
                  /\ pc' = "crashed"
                  /\ UNCHANGED base_url
             ELSE /\ base_url' = split_url.ret
                  /\ pc' = "navigate"
                  /\ UNCHANGED exc
  /\ UNCHANGED <<n_drawn, last_call, botVars, browserVars, installs, spec_index, driver, printed, nav,
                 n_navigations, answers>>

\* SeleniumBot.navigate(url): driver.get(url), the read of driver.current_url
\* and urlsplit on the URL read each succeed or raise.  When all three
\* succeed base_url is the split URL of the page the browser ended on and
\* True is returned; otherwise the exception is printed and False is returned
navigate(url, landings) ==
  /\ n_navigations' = n_navigations + 1
  /\ \/ /\ nav' = [called |-> TRUE, url |-> url, get |-> "raised", read |-> "not reached",
                   split |-> "not reached", ret |-> FALSE, before |-> base_url,
                   printed_before |-> printed]
        /\ printed' = Append(printed, "WebDriverException")
        /\ UNCHANGED <<page_id, focused, base_url>>
     \/ \E landing \in landings :
          /\ page_id' = landing
          /\ focused' = 0
          /\ \/ /\ nav' = [called |-> TRUE, url |-> url, get |-> "ok", read |-> "raised",
                           split |-> "not reached", ret |-> FALSE, before |-> base_url,
                           printed_before |-> printed]
                /\ printed' = Append(printed, "WebDriverException")
                /\ UNCHANGED base_url
             \/ LET split_url == urlsplit(PageUrls[landing])
                IN IF split_url.exc # "None"
                   THEN /\ nav' = [called |-> TRUE, url |-> url, get |-> "ok", read |-> "ok",
                                   split |-> "raised", ret |-> FALSE, before |-> base_url,
                                   printed_before |-> printed]
                        /\ printed' = Append(printed, split_url.exc)
                        /\ UNCHANGED base_url
                   ELSE /\ nav' = [called |-> TRUE, url |-> url, get |-> "ok", read |-> "ok",
                                   split |-> "ok", ret |-> TRUE, before |-> base_url,
                                   printed_before |-> printed]
                        /\ base_url' = split_url.ret
                        /\ UNCHANGED printed
  /\ UNCHANGED <<n_drawn, exc, last_call, botVars, accepts, events, installs, spec_index, driver, answers>>

----------------------------------------------------------------------------
(* ITATrainingBot: the catalog, change_field and process_fields.           *)

\* labels offered to change_field besides the catalog's own: one that is no
\* field, and a catalog label in another case
OtherLabels == { <<"N","o"," ","S","u","c","h"," ","F","i","e","l","d">>,
                 <<"l","a","s","t"," ","n","a","m","e">> }

\* labels overridden before process_fields is run: the first and the last
\* entry, a TEXT entry and a DATE entry, and a label that is no field
OverriddenLabels ==
  { <<"e","m","a","i","l">>,
    <<"L","a","s","t"," ","N","a","m","e">>,
    <<"B","e","g","i","n"," ","D","a","t","e"," ","o","f"," ","T","A"," ","C","o","n","t","r","a","c","t">>,
    <<"D","e","p","a","r","t","m","e","n","t"," ","C","o","n","t","a","c","t"," ","P","e","r","s","o","n","'","s"," ","T","e","l","e","p","h","o","n","e"," ","N","u","m","b","e","r">>,
    <<"N","o"," ","S","u","c","h"," ","F","i","e","l","d">> }

\* values offered to change_field: str | int | bool | List[str]
ChangeValues ==
  { PyStr(<<"S","m","i","t","h">>),
    PyStr(<<"a","b","c">>),
    PyInt(7),
    PyBool(FALSE),
    PyList(<<PyStr(<<"x">>), PyStr(<<"y">>), PyStr(<<"z">>)>>) }

NoChange == [label |-> <<>>, value |-> PyNone, before |-> <<>>]

\* the mutant of StoreValue: the entry itself is kept and its value replaced
StoreValueInEntry(f, position, value) ==
  [f EXCEPT ![position] = PyList([@.items EXCEPT ![2] = value])]

\* the assignment "self.fields[self.lookup[field_label]] = value"
StoreValue(f, position, value) == [f EXCEPT ![position] = value]

\* ITATrainingBot.change_field(field_label, value)
change_field(field_label, value) ==
  /\ pc = "idle"
  /\ fields' = IF field_label \in DOMAIN lookup
               THEN StoreValue(fields, lookup[field_label], value)
               ELSE fields
  /\ n_changes' = n_changes + 1
  /\ last_change' = [label |-> field_label, value |-> value, before |-> fields]
  /\ UNCHANGED <<n_drawn, pc, exc, last_call, lookup, next_field, calls, browserVars, seleniumVars>>

\* the unpacking "[a, b, c] = value": a list or a str of three items unpacks
\* (a str into its characters); another length raises ValueError and a value
\* that is not iterable raises TypeError
Unpack3(value) ==
  CASE value.ty = "list" ->
         IF Len(value.items) = 3 THEN [exc |-> "None", items |-> value.items]
         ELSE [exc |-> "ValueError", items |-> <<>>]
    [] value.ty = "str" ->
         IF Len(value.chars) = 3
         THEN [exc |-> "None", items |-> [k \in 1..3 |-> PyStr(<<value.chars[k]>>)]]
         ELSE [exc |-> "ValueError", items |-> <<>>]
    [] OTHER -> [exc |-> "TypeError", items |-> <<>>]

Call(fn, args) == [fn |-> fn, args |-> args]

\* one iteration of the loop of process_fields on each_field: the call it
\* makes (fn "none": no branch matches) and the results the call can have
Dispatch(page, acc, each_field, foc, upcoming) ==
  LET unpacked == Unpack3(each_field)
  IN IF unpacked.exc # "None"
     THEN [call |-> Call("none", <<>>), results |-> {Res(unpacked.exc, PyNone, <<>>, foc)}]
     ELSE
       LET field_type == unpacked.items[1]
           value == unpacked.items[2]
           label == unpacked.items[3]
       IN CASE field_type = TEXT ->
                 [call |-> Call("enter_text_in_text_input", <<label, value>>),
                  results |-> enter_text_in_text_input(page, acc, label.chars, value, foc,
                                                       upcoming)]
            [] field_type = MULTI_CHECKBOX ->
                 [call |-> Call("select_multiple_checkboxes", <<label>>),
                  results |-> select_multiple_checkboxes(page, acc, label.chars, 1, PyNone,
                                                         foc, upcoming)]
            [] field_type = MULTI_SELECT ->
                 [call |-> Call("select_multiselect_option", <<label>>),
                  results |-> select_multiselect_option(page, acc, label.chars, foc)]
            [] field_type = SINGLE_CHECKBOX ->
                 [call |-> Call("check_singular_textbox", <<label, value>>),
                  results |-> check_singular_textbox(page, acc, label.chars, value, foc)]
            [] field_type = DATE ->
                 LET date == Unpack3(value)
                 IN IF date.exc # "None"
                    THEN [call |-> Call("none", <<>>),
                          results |-> {Res(date.exc, PyNone, <<>>, foc)}]
                    ELSE [call |-> Call("enter_date",
                                        <<label, date.items[1], date.items[2], date.items[3]>>),
                          results |-> enter_date(page, acc, label.chars, date.items[1],
                                                 date.items[2], date.items[3], foc)]
            [] OTHER ->
                 [call |-> Call("none", <<>>), results |-> {Res("None", PyNone, <<>>, foc)}]

\* ITATrainingBot.process_fields, one iteration of its loop at a time: the
\* call starts at the first entry, an exception ends it, and it returns after
\* the last entry
process_fields ==
  /\ pc \in {"idle", "process_fields"}
  /\ next_field \in DOMAIN fields
  /\ LET step == Dispatch(Pages[page_id], accepts, fields[next_field], focused,
                          Upcoming(n_drawn))
     IN \E r \in step.results :
          /\ calls' = IF step.call.fn = "none" THEN calls ELSE Append(calls, step.call)
          /\ events' = events \o Stamp(page_id, r.events)
          /\ focused' = r.focused
          /\ n_drawn' = n_drawn + r.drawn
          /\ exc' = r.exc
          /\ next_field' = IF r.exc = "None" THEN next_field + 1 ELSE next_field
          /\ pc' = IF r.exc # "None" THEN "raised"
                   ELSE IF next_field + 1 \in DOMAIN fields THEN "process_fields"
                   ELSE "done"
  /\ UNCHANGED <<last_call, fields, lookup, n_changes, last_change, page_id, accepts, seleniumVars>>

\* a bot whose browser is started and shows the blank page
StartedBrowser ==
  /\ installs = {"CHROME"}
  /\ spec_index = 1
  /\ driver = "CHROME"
  /\ printed = <<"WebDriverException">>
  /\ base_url = urlsplit(PageUrls["blank"]).ret
  /\ nav = NoNavigation
  /\ n_navigations = 0
  /\ answers = NoAnswers
  /\ events = <<>>
  /\ focused = 0
  /\ n_drawn = 0
  /\ exc = "None"

\* the catalog and the lookup as ITATrainingBot.__init__ builds them
BuiltCatalog ==
  /\ fields = InitialFields
  /\ lookup = BuildLookup(InitialFields)
  /\ n_changes = 0
  /\ last_change = NoChange
  /\ next_field = 0
  /\ calls = <<>>

\* ITATrainingBot.__init__ on a started browser that shows one of the form pages
InitBot ==
  /\ pc = "idle"
  /\ StartedBrowser
  /\ last_call = NoCall
  /\ BuiltCatalog
  /\ page_id \in FormPages
  /\ accepts \in SUBSET {"by", "xpath"}

\* the catalog under change_field calls with any label and value
InitCatalog == InitBot /\ page_id = "form" /\ accepts = {}

NextCatalog ==
  \E field_label \in DOMAIN lookup \cup OtherLabels, value \in ChangeValues :
    n_changes < MaxChanges /\ change_field(field_label, value)

SpecCatalog == InitCatalog /\ [][NextCatalog]_vars

\* overrides followed by process_fields, on every page
NextBot ==
  \/ \E field_label \in OverriddenLabels, value \in ChangeValues :
       n_changes < MaxOverrides /\ change_field(field_label, value)
  \/ process_fields

SpecBot == InitBot /\ [][NextBot]_vars

----------------------------------------------------------------------------
(* The main script.                                                        *)

\* re.match(r'[^@]+@[^@]+\.[^@]+', s): from the start of s, characters other
\* than "@", an "@", characters other than "@", a ".", and one more character
\* other than "@"
EmailMatches(s) ==
  \E at \in 2..Len(s), dot \in 4..Len(s) :
    /\ s[at] = "@"
    /\ \A k \in 1..(at - 1) : s[k] # "@"
    /\ dot >= at + 2
    /\ s[dot] = "."
    /\ \A k \in (at + 1)..(dot - 1) : s[k] # "@"
    /\ dot + 1 <= Len(s)
    /\ s[dot + 1] # "@"

\* the lines the user types at the email prompt
EmailLines ==
  { <<>>,
    <<"n","o","b","o","d","y">>,
    <<"a","@","b">>,
    <<"e","v","e","@","u","d","e","l",".","e","d","u">> }

\* the lines the user types at the other prompts
SecretLines == { <<>>, <<"h","u","n","t","e","r","2">> }

STR_accounts_google_com ==
  <<"a","c","c","o","u","n","t","s",".","g","o","o","g","l","e",".","c","o","m">>

STR_cas_nss_udel_edu == <<"c","a","s",".","n","s","s",".","u","d","e","l",".","e","d","u">>

\* one iteration of a loop "while <line is not accepted>: line = input(...)"
Prompt(at, field, lines, accepted, next_pc) ==
  /\ pc = at
  /\ \E line \in lines :
       /\ answers' = [answers EXCEPT ![field] = line]
       /\ pc' = IF accepted[line] THEN next_pc ELSE at
  /\ UNCHANGED <<n_drawn, exc, last_call, botVars, browserVars, installs, spec_index, driver,
                 printed, base_url, nav, n_navigations>>

\* a call of the main script on the bot, at position at
MainCall(at, r, next_pc) ==
  /\ pc = at
  /\ Perform(r, next_pc)
  /\ UNCHANGED <<n_drawn, last_call, botVars, accepts, seleniumVars>>

\* "ita_bot.navigate(<the form's URL>)"; the result is not looked at
main_navigate ==
  /\ pc = "navigate"
  /\ navigate(FormUrl, LandingPages)
  /\ pc' = "prompt_google_email"

\* the loop asking for the Google email address until it looks like one
prompt_google_email ==
  Prompt("prompt_google_email", "google_email", EmailLines,
         [line \in EmailLines |-> Len(line) # 0 /\ EmailMatches(line)], "enter_email")

\* "ita_bot.enter_email_google_account(google_email)", before the host is tested
main_enter_email ==
  MainCall("enter_email",
           enter_email_google_account(Pages[page_id], answers.google_email, focused),
           "choose_login")

\* the test of base_url.netloc that chooses the login
choose_login ==
  /\ pc = "choose_login"
  /\ pc' = IF base_url.netloc = STR_accounts_google_com THEN "prompt_google_password"
           ELSE IF base_url.netloc = STR_cas_nss_udel_edu THEN "prompt_udel_username"
           ELSE "done"
  /\ UNCHANGED <<n_drawn, exc, last_call, botVars, browserVars, seleniumVars>>

NonEmpty(lines) == [line \in lines |-> Len(line) # 0]

prompt_google_password ==
  Prompt("prompt_google_password", "google_password", SecretLines, NonEmpty(SecretLines),
         "log_in_google_account")

\* log_in_google_account, first call: enter_email_google_account
google_enter_email ==
  MainCall("log_in_google_account",
           enter_email_google_account(Pages[page_id], answers.google_email, focused),
           "enter_password_google_account")

\* log_in_google_account, second call: enter_password_google_account
google_enter_password ==
  MainCall("enter_password_google_account",
           enter_password_google_account(Pages[page_id], answers.google_password, focused),
           "done")

prompt_udel_username ==
  Prompt("prompt_udel_username", "udel_username", SecretLines, NonEmpty(SecretLines),
         "prompt_udel_password")

prompt_udel_password ==
  Prompt("prompt_udel_password", "udel_password", SecretLines, NonEmpty(SecretLines),
         "prompt_otp_secret")

prompt_otp_secret ==
  Prompt("prompt_otp_secret", "otp_secret", SecretLines, NonEmpty(SecretLines),
         "log_in_udel_account")

\* log_in_udel_account, first call: enter_username_udel_account
udel_enter_username ==
  MainCall("log_in_udel_account",
           enter_username_udel_account(Pages[page_id], answers.udel_username, focused),
           "enter_password_udel_account")

\* log_in_udel_account, second call: enter_password_udel_account
udel_enter_password ==
  MainCall("enter_password_udel_account",
           enter_password_udel_account(Pages[page_id], answers.udel_password, focused),
           "enter_otp_udel_account")

\* log_in_udel_account, third call: enter_otp_udel_account, with the OTP secret
\* as typed at the prompt
udel_enter_otp ==
  MainCall("enter_otp_udel_account",
           enter_otp_udel_account(Pages[page_id], answers.otp_secret, focused),
           "done")

\* the start of the main script, "ita_bot = GoogleFormBot()": a GoogleFormBot
\* has no catalog, and the browser is not started yet
InitMain ==
  /\ pc = "find_webdriver"
  /\ exc = "None"
  /\ last_call = NoCall
  /\ fields = <<>>
  /\ lookup = <<>>
  /\ n_changes = 0
  /\ last_change = NoChange
  /\ next_field = 0
  /\ calls = <<>>
  /\ page_id = "blank"
  /\ accepts = {}
  /\ events = <<>>
  /\ focused = 0
  /\ n_drawn = 0
  /\ installs \in SUBSET {specs[k] : k \in 1..Len(specs)}
  /\ spec_index = 0
  /\ driver = "unset"
  /\ printed = <<>>
  /\ base_url = Unset
  /\ nav = NoNavigation
  /\ n_navigations = 0
  /\ answers = NoAnswers

NextMain ==
  \/ try_drivers
  \/ seleniumbot_init
  \/ main_navigate
  \/ prompt_google_email
  \/ main_enter_email
  \/ choose_login
  \/ prompt_google_password
  \/ google_enter_email
  \/ google_enter_password
  \/ prompt_udel_username
  \/ prompt_udel_password
  \/ prompt_otp_secret
  \/ udel_enter_username
  \/ udel_enter_password
  \/ udel_enter_otp

SpecMain == InitMain /\ [][NextMain]_vars

\* the URLs passed to navigate on a started bot
NavigateUrls == {FormUrl, PageUrls["elsewhere"]}

\* a started SeleniumBot on which navigate is called
InitSession ==
  /\ pc = "session"
  /\ StartedBrowser
  /\ last_call = NoCall
  /\ fields = <<>>
  /\ lookup = <<>>
  /\ n_changes = 0
  /\ last_change = NoChange
  /\ next_field = 0
  /\ calls = <<>>
  /\ page_id = "blank"
  /\ accepts = {}

NextSession ==
  \E url \in NavigateUrls :
    /\ n_navigations < MaxNavigations
    /\ navigate(url, DOMAIN Pages)
    /\ UNCHANGED pc

SpecSession == InitSession /\ [][NextSession]_vars

----------------------------------------------------------------------------
(* A GoogleFormBot whose form-filling methods are called one by one.       *)

\* the labels passed to the methods: labels of the form as the catalog
\* writes them, in another case and with a leading blank, a label with
\* letters outside ASCII, and a label the form does not have
FormLabels ==
  { <<"e","m","a","i","l">>,
    <<"L","A","S","T"," ","N","A","M","E">>,
    <<" ","L","a","s","t"," ","N","a","m","e">>,
    <<"C","o","u","n","t","r","y"," ","o","f"," ","C","i","t","i","z","e","n","s","h","i","p">>,
    <<"B","e","g","i","n"," ","D","a","t","e"," ","o","f"," ","T","A"," ","C","o","n","t","r","a","c","t">>,
    <<"N","a","m","e"," ","o","f"," ","S","t","u","d","e","n","t","'","s"," ","P","r","o","g","r","a","m">>,
    <<"R","é","s","u","m","é">>,
    <<"N","o"," ","S","u","c","h"," ","F","i","e","l","d">> }

\* the contents passed to enter_text_in_text_input
TextContents == {PyNone, PyStr(<<>>), PyStr(<<"x">>), PyInt(42)}

\* a call of a method from outside: one of its results happens, and an
\* exception it propagates reaches the caller, who may go on calling
FormCall(fn, args, results) ==
  /\ pc = "form"
  /\ Len(calls) < MaxFormCalls
  /\ \E r \in results :
       /\ last_call' = [fn |-> fn, args |-> args, exc |-> r.exc, ret |-> r.ret,
                        sent |-> Stamp(page_id, r.events)]
       /\ events' = events \o Stamp(page_id, r.events)
       /\ focused' = r.focused
       /\ n_drawn' = n_drawn + r.drawn
       /\ exc' = r.exc
  /\ calls' = Append(calls, Call(fn, args))
  /\ UNCHANGED <<pc, fields, lookup, n_changes, last_change, next_field, page_id, accepts,
                 seleniumVars>>

\* the result of a locator as the result of a call: the element found is the
\* value returned, None when there is none
Located(found, foc) ==
  {Res(found.exc,
       IF found.el = 0 THEN PyNone ELSE [ty |-> "WebElement", el |-> found.el],
       <<>>, foc)}

call_get_input_by_label ==
  \E label \in FormLabels :
    FormCall("get_input_by_label", <<PyStr(label)>>,
             Located(get_input_by_label(Pages[page_id], accepts, label), focused))

call_get_mutliselect_by_label ==
  \E label \in FormLabels :
    FormCall("get_mutliselect_by_label", <<PyStr(label)>>,
             Located(get_mutliselect_by_label(Pages[page_id], accepts, label), focused))

call_enter_text_in_text_input ==
  \E label \in FormLabels, content \in TextContents :
    FormCall("enter_text_in_text_input", <<PyStr(label), content>>,
             enter_text_in_text_input(Pages[page_id], accepts, label, content, focused,
                                      Upcoming(n_drawn)))

call_select_multiselect_option ==
  \E label \in FormLabels :
    FormCall("select_multiselect_option", <<PyStr(label)>>,
             select_multiselect_option(Pages[page_id], accepts, label, focused))

\* checked is one of the two booleans or a non-empty string, which
\* "if checked:" takes as true
call_check_singular_textbox ==
  \E label \in FormLabels,
     checked \in {PyBool(TRUE), PyBool(FALSE), PyStr(<<"n","o">>)} :
    FormCall("check_singular_textbox", <<PyStr(label), checked>>,
             check_singular_textbox(Pages[page_id], accepts, label, checked, focused))

call_enter_date ==
  \E label \in FormLabels :
    FormCall("enter_date", <<PyStr(label), PyInt(12), PyInt(20), PyInt(1990)>>,
             enter_date(Pages[page_id], accepts, label, PyInt(12), PyInt(20), PyInt(1990),
                        focused))

call_select_multiple_checkboxes ==
  \E label \in FormLabels, choose_amount \in 0..MaxChoose,
     other_text \in {PyNone, PyStr(<<"e","t","c">>)} :
    FormCall("select_multiple_checkboxes", <<PyStr(label), PyInt(choose_amount), other_text>>,
             select_multiple_checkboxes(Pages[page_id], accepts, label, choose_amount,
                                        other_text, focused,
                                        Upcoming(n_drawn)))

\* a started GoogleFormBot on one of the form pages, with a driver that
\* resolves the bot's locators or one that resolves neither shape
InitForm ==
  /\ pc = "form"
  /\ StartedBrowser
  /\ last_call = NoCall
  /\ fields = <<>>
  /\ lookup = <<>>
  /\ n_changes = 0
  /\ last_change = NoChange
  /\ next_field = 0
  /\ calls = <<>>
  /\ page_id \in FormPages
  /\ accepts \in {{}, {"by", "xpath"}}

NextForm ==
  \/ call_get_input_by_label
  \/ call_get_mutliselect_by_label
  \/ call_enter_text_in_text_input
  \/ call_select_multiselect_option
  \/ call_check_singular_textbox
  \/ call_enter_date
  \/ call_select_multiple_checkboxes

SpecForm == InitForm /\ [][NextForm]_vars

----------------------------------------------------------------------------
(* The claims about the catalog and its lookup.                            *)

\* the kind of an entry: the first item of a list, None for anything else
KindOf(entry) ==
  IF entry.ty = "list" /\ Len(entry.items) > 0 THEN entry.items[1] ELSE PyNone

\* whether the last call was change_field with a label of the catalog
ChangedKnownLabel == n_changes > 0 /\ last_change.label \in DOMAIN lookup

\* C1: after change_field(L, v) with L a label of the catalog, the entry at
\* position lookup[L] is the triple (kind, v, L), where kind is the kind the
\* entry had before the call: only the value component changes.
C1_ChangeFieldReplacesOnlyTheValue ==
  ChangedKnownLabel =>
    fields[lookup[last_change.label]] =
      PyList(<<KindOf(last_change.before[lookup[last_change.label]]),
               last_change.value,
               PyStr(last_change.label)>>)

\* whether an entry is a (kind, value, label) triple with a kind of the enum
IsTriple(entry) ==
  /\ entry.ty = "list"
  /\ Len(entry.items) = 3
  /\ entry.items[1] \in GoogleFormBotFieldType

\* C2: in every reachable state every catalog entry is a 3-component (kind,
\* value, label) entry whose kind is one of DATE, MULTI_CHECKBOX, MULTI_SELECT,
\* SINGLE_CHECKBOX, TEXT, and the catalog keeps its 18 entries in their
\* original order.
C2_EveryEntryIsATriple ==
  /\ DOMAIN fields = 0..17
  /\ \A i \in DOMAIN fields :
       /\ IsTriple(fields[i])
       /\ fields[i].items[3] = InitialFields[i].items[3]

\* C3: the lookup is a faithful label-to-position index: its domain is exactly
\* the set of labels of the catalog entries, and for every label L in it the
\* label component of fields[lookup[L]] equals L.
C3_LookupIsFaithful ==
  /\ {PyStr(label) : label \in DOMAIN lookup} = {LastItem(fields[i]) : i \in DOMAIN fields}
  /\ \A label \in DOMAIN lookup : LastItem(fields[lookup[label]]) = PyStr(label)

\* C4: in the catalog built by __init__ no two entries share a label, so the
\* lookup has exactly as many keys as the catalog has entries (18) and maps
\* distinct labels to distinct positions in 0..17.
C4_LabelsAreUniqueKeys ==
  /\ n_changes = 0 =>
       /\ DOMAIN fields = 0..17
       /\ \A i, j \in DOMAIN fields :
            i # j => LastItem(fields[i]) # LastItem(fields[j])
  /\ Cardinality(DOMAIN lookup) = 18
  /\ \A label \in DOMAIN lookup : lookup[label] \in 0..17
  /\ \A label1, label2 \in DOMAIN lookup :
       label1 # label2 => lookup[label1] # lookup[label2]

\* the catalog as built, with its first and last label looked up
C4_Witness ==
  /\ pc = "idle"
  /\ n_changes = 0
  /\ lookup[<<"e","m","a","i","l">>] = 0
  /\ lookup[InitialFields[17].items[3].chars] = 17
  /\ Len(InitialFields[17].items[3].chars) = 44

\* whether process_fields has ended, by returning or by raising
ProcessFieldsEnded == pc \in {"done", "raised"}

\* the full form shown by a driver that resolves the bot's locators: the
\* page on which process_fields fills the catalog as written
OnWorkingForm == page_id = "form" /\ accepts = {"by", "xpath"}

\* C5: an override made before submission is what gets submitted: after
\* change_field(L, v) for a TEXT label L, process_fields processes all 18
\* entries without raising and calls enter_text_in_text_input(L, v); and
\* process_fields completes without error after any change_field calls.
C5_OverrideIsSubmitted ==
  (OnWorkingForm /\ ProcessFieldsEnded) =>
    /\ pc = "done"
    /\ exc = "None"
    /\ next_field = 18
    /\ (/\ ChangedKnownLabel
        /\ KindOf(last_change.before[lookup[last_change.label]]) = TEXT)
       => \E k \in 1..Len(calls) :
            calls[k] = Call("enter_text_in_text_input",
                            <<PyStr(last_change.label), last_change.value>>)

\* process_fields fills the catalog as written on the working form: the
\* failure C5 meets comes from the override, not from the page
ProcessFieldsFillsUnchangedCatalog ==
  (OnWorkingForm /\ ProcessFieldsEnded /\ fields = InitialFields) =>
    (pc = "done" /\ exc = "None" /\ Len(calls) = 18)

----------------------------------------------------------------------------
(* The claims about the main script, the driver and the error handling.    *)

\* whether the main script has ended after one of its two logins went
\* through without an exception
AuthenticationCompleted ==
  /\ pc = "done"
  /\ exc = "None"
  /\ base_url.netloc \in {STR_accounts_google_com, STR_cas_nss_udel_edu}

\* C6: the program is one linear run, driver setup, navigate, authenticate,
\* iterate the field list: in every run of the main script in which
\* authentication completes without error the catalog is iterated
\* (process_fields runs over every catalog entry), and no field is filled
\* before authentication.  At the end of such a run every entry of the
\* 18-entry catalog has been processed.
C6_AuthenticationIsFollowedByTheFields ==
  /\ AuthenticationCompleted => (next_field = 18 /\ Len(calls) = 18)
  /\ ~AuthenticationCompleted => calls = <<>>

\* the page the browser shows, as the driver reports it
CurrentUrlSplit == urlsplit(PageUrls[page_id])

\* what navigate does when it fails: the exception is printed, False is
\* returned and base_url is left as it was
NavigateFailed ==
  /\ nav.ret = FALSE
  /\ base_url = nav.before
  /\ printed = Append(nav.printed_before, "WebDriverException")

\* what navigate does when it succeeds: True is returned, base_url is the
\* split form of the driver's current URL and nothing is printed
NavigateSucceeded ==
  /\ nav.ret = TRUE
  /\ CurrentUrlSplit.exc = "None"
  /\ base_url = CurrentUrlSplit.ret
  /\ printed = nav.printed_before

\* C7 as stated: navigate never propagates an exception; it returns True
\* exactly when the driver's page load succeeds, in which case base_url is
\* the split form of the driver's current URL; when the page load raises it
\* prints the exception, returns False and leaves base_url unchanged.
C7_NavigateTrueWhenPageLoadSucceeds ==
  nav.called =>
    /\ exc = "None"
    /\ nav.ret = TRUE <=> nav.get = "ok"
    /\ nav.get = "ok" => NavigateSucceeded
    /\ nav.get = "raised" => NavigateFailed

\* the position in specs of the first type that instantiates, 0 when none does
FirstInstallable ==
  IF \E k \in 1..Len(specs) : specs[k] \in installs
  THEN CHOOSE k \in 1..Len(specs) :
         /\ specs[k] \in installs
         /\ \A j \in 1..(k - 1) : specs[j] \notin installs
  ELSE 0

\* whether find_webdriver has returned
FindWebdriverReturned == driver # "unset"

\* C8: find_webdriver is guaranteed to yield a driver: trying BRAVE, CHROME,
\* CHROMIUM, EDGE, FIREFOX, INTERNET_EXPLORER, OPERA in that order, whenever
\* at least one of the seven types can be instantiated it returns the driver
\* of the first type in the order whose instantiation succeeds, never None,
\* and every type is attempted if all earlier ones failed.
C8_FirstInstallableDriverIsReturned ==
  (FindWebdriverReturned /\ FirstInstallable # 0) =>
    /\ driver # "None"
    /\ driver = specs[FirstInstallable]
    /\ spec_index = FirstInstallable - 1

\* C9: driver-setup failure is reported, not raised: when instantiating a
\* driver type raises, try_drivers prints that exception and moves on to the
\* next type; when no type yields a driver find_webdriver returns None
\* without propagating an exception; and constructing a SeleniumBot in that
\* situation does not propagate an exception either.
C9_DriverSetupFailureIsNotRaised ==
  /\ pc \in {"find_webdriver", "seleniumbot_init"} =>
       /\ exc = "None"
       /\ printed = [k \in 1..spec_index |-> "WebDriverException"]
       /\ \A k \in 1..spec_index : get_driver(specs[k], installs).exc # "None"
  /\ driver = "None" => (exc = "None" /\ pc # "crashed")

\* the field-filling operations of GoogleFormBot
FillingOperations ==
  {"enter_text_in_text_input", "select_multiselect_option", "check_singular_textbox",
   "enter_date", "select_multiple_checkboxes"}

\* the label locators of GoogleFormBot
LabelLocators == {"get_input_by_label", "get_mutliselect_by_label"}

\* whether the last call was given a label that matches no span of the page
LastLabelMatchesNoSpan ==
  /\ last_call.fn \in FillingOperations \union LabelLocators
  /\ LabelSpans(Pages[page_id], last_call.args[1].chars) = <<>>

\* C10: every field-filling operation of GoogleFormBot, called with a label
\* that matches no span on the page, performs no click, sends no keystroke
\* and does not propagate an exception; the label locators get_input_by_label
\* and get_mutliselect_by_label return None in that case.
C10_UnmatchedLabelDoesNothing ==
  LastLabelMatchesNoSpan =>
    /\ last_call.sent = <<>>
    /\ last_call.exc = "None"
    /\ last_call.fn \in LabelLocators => last_call.ret = PyNone

\* the part of C10 about the locators, which the code keeps
LocatorsReturnNoneForUnmatchedLabel ==
  (LastLabelMatchesNoSpan /\ last_call.fn \in LabelLocators) =>
    (last_call.exc = "None" /\ last_call.ret = PyNone /\ last_call.sent = <<>>)

----------------------------------------------------------------------------
(* The claims about the login flows of the main script.                    *)

\* the positions of the main script inside the Google flow
GoogleFlowPositions ==
  {"prompt_google_password", "log_in_google_account", "enter_password_google_account"}

\* the positions of the main script inside the university flow
UdelFlowPositions ==
  {"prompt_udel_username", "prompt_udel_password", "prompt_otp_secret",
   "log_in_udel_account", "enter_password_udel_account", "enter_otp_udel_account"}

\* whether the run has entered the Google flow: it is inside it, or it has
\* left it with a password typed at its prompt
GoogleFlowTaken == pc \in GoogleFlowPositions \/ answers.google_password # <<>>

\* whether the run has entered the university flow
UdelFlowTaken == pc \in UdelFlowPositions \/ answers.udel_username # <<>>

\* whether the run has ended without entering either flow
NeitherFlowTaken == pc = "done" /\ ~GoogleFlowTaken /\ ~UdelFlowTaken

\* the positions right after the test of the host, where the browser still
\* shows the page it showed when the host was tested
JustChosen ==
  \/ pc \in {"prompt_google_password", "log_in_google_account"}
  \/ pc \in {"prompt_udel_username", "prompt_udel_password", "prompt_otp_secret",
             "log_in_udel_account"}
  \/ NeitherFlowTaken

\* C11: the main script runs at most one of the two login flows per run,
\* chosen by the host of the page reached: the Google flow exactly when
\* base_url.netloc is accounts.google.com, the university flow exactly when
\* it is cas.nss.udel.edu, and neither flow for any other host; and the host
\* tested is the host of the page the browser is on at that moment.
C11_FlowChosenByHostOfCurrentPage ==
  /\ ~(GoogleFlowTaken /\ UdelFlowTaken)
  /\ GoogleFlowTaken => base_url.netloc = STR_accounts_google_com
  /\ UdelFlowTaken => base_url.netloc = STR_cas_nss_udel_edu
  /\ NeitherFlowTaken =>
       base_url.netloc \notin {STR_accounts_google_com, STR_cas_nss_udel_edu}
  /\ JustChosen =>
       /\ CurrentUrlSplit.exc = "None"
       /\ base_url.netloc = CurrentUrlSplit.ret.netloc

\* the part of C11 about the choice, which the code keeps: the flow follows
\* the host stored in base_url
FlowFollowsBaseUrl ==
  /\ ~(GoogleFlowTaken /\ UdelFlowTaken)
  /\ GoogleFlowTaken => base_url.netloc = STR_accounts_google_com
  /\ UdelFlowTaken => base_url.netloc = STR_cas_nss_udel_edu
  /\ NeitherFlowTaken =>
       base_url.netloc \notin {STR_accounts_google_com, STR_cas_nss_udel_edu}

----------------------------------------------------------------------------
(* The claims about the form-filling methods.                              *)

\* the methods C12 speaks of
LabelledLocators ==
  {"get_input_by_label", "get_mutliselect_by_label", "check_singular_textbox",
   "enter_date", "select_multiple_checkboxes"}

\* two characters that are one letter, in the same case or not
SameLetter(a, b) ==
  \/ a = b
  \/ a \in DOMAIN ToLower /\ ToLower[a] = b
  \/ b \in DOMAIN ToLower /\ ToLower[b] = a

\* two strings that are equal ignoring case
EqualIgnoringCase(s, t) ==
  /\ Len(s) = Len(t)
  /\ \A k \in 1..Len(s) : SameLetter(s[k], t[k])

\* the spans of the page whose innerHTML, stripped, equals the label ignoring
\* case; a span without innerHTML is none of them
MatchingSpans(page, label) ==
  {e \in 1..Len(page) :
     /\ page[e].tag = "span"
     /\ "innerHTML" \in DOMAIN page[e].attrs
     /\ EqualIgnoringCase(Strip(page[e].attrs["innerHTML"]), label)}

\* the last of them in document order
LastMatchingSpan(page, label) ==
  CHOOSE e \in MatchingSpans(page, label) : \A o \in MatchingSpans(page, label) : o <= e

\* the ancestor container of the label span a method works below: the third
\* parent for check_singular_textbox, the fourth for the others
ContainerOf(page, fn, label) ==
  Ancestor(page, LastMatchingSpan(page, label),
           IF fn = "check_singular_textbox" THEN 3 ELSE 4)

\* the elements the last call clicked or returned
ElementsLocatedByLastCall ==
  {last_call.sent[k].el : k \in {i \in 1..Len(last_call.sent) : last_call.sent[i].op = "click"}}
    \cup (IF last_call.ret # PyNone THEN {last_call.ret.el} ELSE {})

\* the elements the last call typed into
ElementsTypedIntoByLastCall ==
  {last_call.sent[k].el :
     k \in {i \in 1..Len(last_call.sent) : last_call.sent[i].op = "send_keys"}}

\* the elements the last call acted on or returned
ElementsOfLastCall == ElementsLocatedByLastCall \cup ElementsTypedIntoByLastCall

\* C12: label lookup picks the right element: for each locator
\* (get_input_by_label, get_mutliselect_by_label, check_singular_textbox,
\* enter_date, select_multiple_checkboxes) the label span used is the last
\* span in document order whose stripped innerHTML equals the label ignoring
\* case; spans with no innerHTML are never matched, and the widget acted on
\* is always a descendant of that span's ancestor container.
C12_WidgetIsBelowTheLastMatchingSpan ==
  last_call.fn \in LabelledLocators =>
    LET page == Pages[page_id]
        label == last_call.args[1].chars
    IN IF MatchingSpans(page, label) = {}
       THEN ElementsOfLastCall = {}
       ELSE \A e \in ElementsOfLastCall :
              IsDescendant(page, e, ContainerOf(page, last_call.fn, label))

\* the part of C12 that does not depend on the focus: the elements a method
\* finds below the label, that is every element it returns or clicks and
\* every element a method other than select_multiple_checkboxes types into,
\* are below the container of the last matching span
LocatedWidgetIsBelowTheLastMatchingSpan ==
  last_call.fn \in LabelledLocators =>
    LET page == Pages[page_id]
        label == last_call.args[1].chars
        located == ElementsLocatedByLastCall
                     \cup (IF last_call.fn = "select_multiple_checkboxes" THEN {}
                           ELSE ElementsTypedIntoByLastCall)
    IN IF MatchingSpans(page, label) = {}
       THEN located = {}
       ELSE \A e \in located :
              IsDescendant(page, e, ContainerOf(page, last_call.fn, label))

\* select_multiple_checkboxes has typed into an input that is not below the
\* container of its label
TypedOutsideTheContainer ==
  /\ last_call.fn = "select_multiple_checkboxes"
  /\ last_call.exc = "None"
  /\ \E e \in ElementsTypedIntoByLastCall :
       ~IsDescendant(Pages[page_id], e,
                     ContainerOf(Pages[page_id], last_call.fn, last_call.args[1].chars))

\* the call the claim assigns to a (kind, value, label) entry
ExpectedCall(entry) ==
  LET kind == entry.items[1]
      value == entry.items[2]
      label == entry.items[3]
  IN CASE kind = TEXT -> Call("enter_text_in_text_input", <<label, value>>)
       [] kind = MULTI_CHECKBOX -> Call("select_multiple_checkboxes", <<label>>)
       [] kind = MULTI_SELECT -> Call("select_multiselect_option", <<label>>)
       [] kind = SINGLE_CHECKBOX -> Call("check_singular_textbox", <<label, value>>)
       [] kind = DATE ->
            Call("enter_date", <<label, value.items[1], value.items[2], value.items[3]>>)

\* whether the calls made so far are those of the first entries, one call
\* per entry and in catalog order
CallsFollowTheCatalog ==
  /\ Len(calls) <= NumFields
  /\ \A k \in 1..Len(calls) :
       IsTriple(fields[k - 1]) /\ calls[k] = ExpectedCall(fields[k - 1])

\* C13: process_fields visits every catalog entry exactly once, in catalog
\* order, and dispatches each to exactly one handler determined by its kind:
\* TEXT to enter_text_in_text_input(label, value), MULTI_CHECKBOX to
\* select_multiple_checkboxes(label), MULTI_SELECT to
\* select_multiselect_option(label), SINGLE_CHECKBOX to
\* check_singular_textbox(label, value), DATE to enter_date(label, month, day,
\* year) with the three components of value in that order.  Stated for the
\* form on which every handler finds its widget.
C13_EveryEntryIsDispatchedByKind ==
  OnWorkingForm =>
    /\ CallsFollowTheCatalog
    /\ ProcessFieldsEnded => (pc = "done" /\ Len(calls) = NumFields)

\* on the catalog as built the dispatch is the one C13 describes
UnchangedCatalogIsDispatchedByKind ==
  (OnWorkingForm /\ fields = InitialFields) =>
    /\ CallsFollowTheCatalog
    /\ ProcessFieldsEnded => (pc = "done" /\ Len(calls) = NumFields)

\* whether the last call was the method fn, made with a driver that resolves
\* the bot's locators and with a label the page shows
CalledOnShownLabel(fn) ==
  /\ last_call.fn = fn
  /\ accepts = {"by", "xpath"}
  /\ MatchingSpans(Pages[page_id], last_call.args[1].chars) # {}

\* the divs with the given role below the container of the last call's label
DivsWithRole(role) ==
  LET page == Pages[page_id]
      container == ContainerOf(page, last_call.fn, last_call.args[1].chars)
  IN {e \in 1..Len(page) :
        /\ page[e].tag = "div"
        /\ IsDescendant(page, e, container)
        /\ "role" \in DOMAIN page[e].attrs
        /\ page[e].attrs["role"] = role}

\* the number of clicks the last call made on an element
ClicksOn(e) ==
  Cardinality({k \in 1..Len(last_call.sent) :
                 last_call.sent[k].op = "click" /\ last_call.sent[k].el = e})

\* the options checked after the last call, all being unchecked before it: a
\* click toggles an option
CheckedOptions == {e \in DivsWithRole(STR_listitem) : ClicksOn(e) % 2 = 1}

\* C14: select_multiple_checkboxes selects choose_amount checkboxes: for a
\* list with at least n options, all initially unchecked, after
\* select_multiple_checkboxes(label, choose_amount=n) exactly n distinct
\* options are checked; and when the list container exists but contains no
\* list items the call clicks nothing and raises nothing.
C14_ChooseAmountOptionsAreChecked ==
  CalledOnShownLabel("select_multiple_checkboxes") =>
    LET n == last_call.args[2].n
    IN /\ (DivsWithRole(STR_listitem) # {} /\ Cardinality(DivsWithRole(STR_listitem)) >= n) =>
            (last_call.exc = "None" /\ Cardinality(CheckedOptions) = n)
       /\ (DivsWithRole(STR_list) # {} /\ DivsWithRole(STR_listitem) = {}) =>
            (last_call.exc = "None" /\ last_call.sent = <<>>)

\* one option is checked after a call with choose_amount = 1
OneDrawChecksOneOption ==
  (CalledOnShownLabel("select_multiple_checkboxes") /\ last_call.args[2].n = 1
     /\ DivsWithRole(STR_listitem) # {}) =>
    (last_call.exc = "None" /\ Cardinality(CheckedOptions) = 1)

\* the inputs below the container of the last call's label that are a part
\* of a date widget: role combobox and the given aria-label
DatePart(aria_label) ==
  LET page == Pages[page_id]
      container == ContainerOf(page, last_call.fn, last_call.args[1].chars)
  IN {e \in 1..Len(page) :
        /\ page[e].tag = "input"
        /\ IsDescendant(page, e, container)
        /\ {"role", "aria-label"} \subseteq DOMAIN page[e].attrs
        /\ Lower(Strip(page[e].attrs["role"])) = STR_combobox
        /\ Lower(Strip(page[e].attrs["aria-label"])) = aria_label}

\* whether the date widget of the last call's label has its three inputs
DateWidgetIsComplete ==
  /\ MatchingSpans(Pages[page_id], last_call.args[1].chars) # {}
  /\ DatePart(STR_month) # {}
  /\ DatePart(STR_day_of_the_month) # {}
  /\ DatePart(STR_year) # {}

\* the keystrokes that type text into el, on the page shown
Typing(el, text) ==
  [k \in 1..Len(text) |-> [page |-> page_id, op |-> "send_keys", el |-> el, key |-> text[k]]]

\* C15: enter_date is all-or-nothing and ordered: it types into the date
\* widget only when a month input, a day-of-the-month input and a year input
\* (role combobox with the matching aria-label) are all found under the
\* label's container; then it types the month, then the day, then the year,
\* each into its own input, and when any one of the three inputs is missing
\* it types nothing into any of them.
C15_EnterDateIsAllOrNothing ==
  last_call.fn = "enter_date" =>
    /\ last_call.sent # <<>> => DateWidgetIsComplete
    /\ ~DateWidgetIsComplete => last_call.sent = <<>>
    /\ (DateWidgetIsComplete /\ accepts = {"by", "xpath"}) =>
         \E m \in DatePart(STR_month), d \in DatePart(STR_day_of_the_month),
            y \in DatePart(STR_year) :
           /\ Cardinality({m, d, y}) = 3
           /\ last_call.exc = "None"
           /\ last_call.sent = Typing(m, StrOf(last_call.args[2]))
                                 \o Typing(d, StrOf(last_call.args[3]))
                                 \o Typing(y, StrOf(last_call.args[4]))

\* a date typed in full into a complete widget
C15_Witness ==
  /\ last_call.fn = "enter_date"
  /\ page_id = "form"
  /\ DateWidgetIsComplete
  /\ Len(last_call.sent) = 8
  /\ last_call.sent[1].key = "1"
  /\ last_call.sent[8].key = "0"
  /\ last_call.sent[1].el < last_call.sent[3].el
  /\ last_call.sent[3].el < last_call.sent[5].el

\* a date widget without its year input, which is left alone
DateWithoutYearIsLeftAlone ==
  /\ last_call.fn = "enter_date"
  /\ page_id = "variants"
  /\ accepts = {"by", "xpath"}
  /\ MatchingSpans(Pages[page_id], last_call.args[1].chars) # {}
  /\ DatePart(STR_month) # {}
  /\ DatePart(STR_year) = {}
  /\ last_call.sent = <<>>

----------------------------------------------------------------------------
(* The claims about the order of the login steps.                          *)

\* a keystroke as the claims speak of it: the key and the attribute of the
\* input it went to
KeysWith(sent, attribute) ==
  [k \in 1..Len(sent) |->
     [op |-> sent[k].op,
      key |-> sent[k].key,
      input |-> get_attribute(Pages[sent[k].page], sent[k].el, attribute)]]

\* text typed key by key into the input whose attribute has the value
TypedInto(text, value) ==
  [k \in 1..Len(text) |-> [op |-> "send_keys", key |-> text[k], input |-> PyStr(value)]]

\* ENTER pressed in the input whose attribute has the value
EnterIn(value) == <<[op |-> "send_keys", key |-> "ENTER", input |-> PyStr(value)]>>

\* what the main script has sent since it entered a login flow: everything
\* after the email address and the ENTER of line 692
SentInFlow == SubSeq(events, Len(answers.google_email) + 2, Len(events))

\* the three steps of log_in_udel_account as keystrokes
UsernameStep == TypedInto(answers.udel_username, <<"u","s","e","r","n","a","m","e">>)

PasswordStep ==
  TypedInto(answers.udel_password, <<"p","a","s","s","w","o","r","d">>)
    \o EnterIn(<<"p","a","s","s","w","o","r","d">>)

OtpStep == TypedInto(answers.otp_secret, <<"t","o","k","e","n">>) \o EnterIn(<<"t","o","k","e","n">>)

\* C16: log_in_udel_account performs its steps in the fixed order username,
\* password, one-time password: the username is typed into the input with id
\* username without pressing Enter, then the password into the input with id
\* password followed by Enter, then the OTP into the input with id token
\* followed by Enter; if a step cannot find its input it raises and no later
\* step sends any keystroke.
C16_UdelStepsInOrder ==
  LET sent == KeysWith(SentInFlow, "id")
  IN /\ pc = "log_in_udel_account" => sent = <<>>
     /\ pc = "enter_password_udel_account" => sent = UsernameStep
     /\ pc = "enter_otp_udel_account" => sent = UsernameStep \o PasswordStep
     /\ (pc = "done" /\ UdelFlowTaken) => sent = UsernameStep \o PasswordStep \o OtpStep
     /\ (pc = "crashed" /\ UdelFlowTaken) =>
          /\ exc = "Exception"
          /\ sent \in {<<>>, UsernameStep, UsernameStep \o PasswordStep}

\* the university login gone through in full
C16_Witness ==
  /\ pc = "done"
  /\ UdelFlowTaken
  /\ exc = "None"
  /\ page_id \in {"udel_otp", "form"}
  /\ Len(SentInFlow) = 23
  /\ KeysWith(SentInFlow, "id")[8].input = PyStr(<<"p","a","s","s","w","o","r","d">>)
  /\ KeysWith(SentInFlow, "id")[23] = EnterIn(<<"t","o","k","e","n">>)[1]

\* the username step not finding its input on the second-factor page: the
\* token input is there, and the later steps type nothing into it
UdelStepRaises ==
  /\ pc = "crashed"
  /\ UdelFlowTaken
  /\ page_id = "udel_otp"
  /\ answers.otp_secret # <<>>
  /\ SentInFlow = <<>>

\* the positions in the keystrokes sent so far where ENTER was pressed in an
\* input of type email
EmailSubmissions ==
  {k \in 1..Len(events) : KeysWith(events, "type")[k] = EnterIn(<<"e","m","a","i","l">>)[1]}

\* the positions where a key went to an input of type password
PasswordKeys ==
  {k \in 1..Len(events) :
     KeysWith(events, "type")[k].input = PyStr(<<"p","a","s","s","w","o","r","d">>)}

\* whether every key of the password came after a submission of the email
PasswordOnlyAfterEmail ==
  \A k \in PasswordKeys : \E j \in EmailSubmissions : j < k

\* C17: in a run of the main script that takes the Google login flow, the
\* email address is typed and submitted exactly once, and the password is
\* typed only after the email has been submitted.
C17_EmailSubmittedOnce ==
  GoogleFlowTaken =>
    /\ Cardinality(EmailSubmissions) = 1
    /\ Len(events) >= Len(answers.google_email) + 1
    /\ PasswordOnlyAfterEmail
    /\ (pc = "done" /\ exc = "None") =>
         KeysWith(events, "type") =
           TypedInto(answers.google_email, <<"e","m","a","i","l">>)
             \o EnterIn(<<"e","m","a","i","l">>)
             \o TypedInto(answers.google_password, <<"p","a","s","s","w","o","r","d">>)
             \o EnterIn(<<"p","a","s","s","w","o","r","d">>)

\* the part of C17 about the order, which the code keeps
PasswordFollowsEmailInGoogleFlow == GoogleFlowTaken => PasswordOnlyAfterEmail

====
